---- MODULE Spec2Model ----
(***************************************************************************)
(* A model of the AI orchestration core of the Arduino IDE:                *)
(*   - SimpleMemory   (services/ai/memory/simpleMemory.js)                 *)
(*   - toolSchema     (services/ai/tools/toolSchema.js)                    *)
(*   - ToolExecutor   (services/ai/tools/toolExecutor.js)                  *)
(*   - AIAgent        (services/ai/agent.js)                               *)
(* Texts are sequences of one-character strings, so that normalisation     *)
(* (lower-casing, whitespace collapsing, trimming) is computed, not        *)
(* assumed.                                                                *)
(***************************************************************************)
EXTENDS Integers, Sequences, FiniteSets, TLC

VARIABLES
    memory,      \* SimpleMemory.memory: [errors, fixes, executions]
    loaded,      \* SimpleMemory.loaded
    disk,        \* memory.json: [exists, data]
    now,         \* logical clock standing for Date.now() / new Date()
    memCall,     \* the Memory Store call of a direct caller that resolved last
    uiState,         \* main.js uiState: currentSketchPath, selectedBoard, selectedPort
    hasUICallbacks,  \* ToolExecutor.uiCallbacks is set
    isConnected,     \* SerialMonitor.isConnected
    currentBaudRate, \* SerialMonitor.currentBaudRate (0 for null)
    dataListeners,   \* 'data' listeners the executor has registered on the transport
    serialBuffer,    \* ToolExecutor.serialBuffer
    execCall,        \* the ToolExecutor.execute call that settled last
    currentProvider,     \* AIAgent.currentProvider, by its name ("none" for null)
    providerKey,         \* AIAgent.currentProvider.apiKey
    setCall,             \* the setProvider call that returned or threw last
    maxIterations,       \* AIAgent.config.maxIterations
    conversationHistory, \* AIAgent.conversationHistory
    turn,                \* the locals of the public call in flight, and how it ended
    turns,               \* public calls of the agent started so far
    chatCalls,           \* chat() calls made on the provider so far
    inFlight,            \* execute() calls the turn has started and not yet seen settle
    turn2,               \* the locals of a processQuery call made while `turn` is in flight
    storeCalls,          \* SimpleMemory calls in flight side by side, one per caller
    uploadCall,          \* an executeUpload call in flight, by the await it has reached
    connectCall          \* a SerialMonitor.connect call made from outside that upload

memVars == <<memory, loaded, disk, now, memCall>>

execVars == <<uiState, hasUICallbacks, isConnected, currentBaudRate, dataListeners,
              serialBuffer, execCall>>

providerVars == <<currentProvider, providerKey, setCall>>

asyncVars == <<storeCalls, uploadCall, connectCall>>

raceVars == <<inFlight, turn2, asyncVars>>

agentVars == <<providerVars, maxIterations, raceVars, conversationHistory, turn, turns,
               chatCalls>>

vars == <<memVars, execVars, agentVars>>

\* ------------------------------------------------------------------------
\* Bounds of the model
\* ------------------------------------------------------------------------
MaxExecCalls == 2        \* ToolExecutor.execute calls in one behaviour of SpecExec
MaxMemCalls == 3         \* Memory Store calls in one behaviour of SpecMem
MaxTurns == 2            \* public calls of the agent in one behaviour of Spec
MaxConfigIterations == 2 \* the largest config.maxIterations an agent is built with
MaxChatCalls == 3        \* chat() calls on the provider in one behaviour of Spec
MaxSetCalls == 2         \* setProvider calls in one behaviour of SpecProvider

\* ------------------------------------------------------------------------
\* Program constants
\* ------------------------------------------------------------------------
MaxExecutions == 100     \* recordExecution keeps the last 100 executions
SubstringLen == 50       \* e.message.toLowerCase().substring(0, 50)
ExactConfidence == 10    \* confidence 1.0, in tenths
SimilarConfidence == 5   \* confidence 0.5, in tenths
DefaultSearchLimit == 10 \* searchSimilarErrors(query, limit = 10)

\* ------------------------------------------------------------------------
\* Texts
\* ------------------------------------------------------------------------
ErrorTexts ==
    { <<"A", "b">>,                  \* "Ab"
      <<"a", "b">>,                  \* "ab"
      <<" ", "a", "b", " ">>,        \* " ab "
      <<"a", " ", "TAB", "b">>,      \* "a \tb"
      <<"A", " ", "b">>,             \* "A b"
      <<"b">> }                      \* "b"

FixTexts == {"lower the upload speed", "press reset"}

IsSpace(c) == c \in {" ", "TAB"}

LowerChar(c) == IF c = "A" THEN "a" ELSE IF c = "B" THEN "b" ELSE c

\* String.prototype.toLowerCase
ToLowerCase(s) == [i \in 1..Len(s) |-> LowerChar(s[i])]

RECURSIVE SkipSpaces(_)
SkipSpaces(s) ==
    IF s = <<>> THEN <<>>
    ELSE IF IsSpace(Head(s)) THEN SkipSpaces(Tail(s)) ELSE s

\* replace(/\s+/g, ' ')
RECURSIVE CollapseWhitespace(_)
CollapseWhitespace(s) ==
    IF s = <<>> THEN <<>>
    ELSE IF IsSpace(Head(s))
         THEN <<" ">> \o CollapseWhitespace(SkipSpaces(Tail(s)))
         ELSE <<Head(s)>> \o CollapseWhitespace(Tail(s))

RECURSIVE DropTrailingSpaces(_)
DropTrailingSpaces(s) ==
    IF s = <<>> THEN <<>>
    ELSE IF IsSpace(s[Len(s)]) THEN DropTrailingSpaces(SubSeq(s, 1, Len(s) - 1))
         ELSE s

\* String.prototype.trim
Trim(s) == DropTrailingSpaces(SkipSpaces(s))

NormalizeNoLowerCase(text) == Trim(CollapseWhitespace(text))

\* text.toLowerCase().replace(/\s+/g, ' ').trim()
Normalize(text) == Trim(CollapseWhitespace(ToLowerCase(text)))

\* generateSignature without the toLowerCase() step
generateSignatureCaseSensitive(text) == <<"sha", NormalizeNoLowerCase(text)>>

\* sha256(normalized).hex.substring(0, 16): a digest is modelled as a value
\* tagged "sha", equal for equal normalized texts and different otherwise.
generateSignature(text) == <<"sha", Normalize(text)>>

\* String.prototype.substring(0, n)
Substring0(s, n) == SubSeq(s, 1, IF Len(s) < n THEN Len(s) ELSE n)

\* String.prototype.includes
Includes(s, t) ==
    \E i \in 0..(Len(s) - Len(t)) : SubSeq(s, i + 1, i + Len(t)) = t

\* ------------------------------------------------------------------------
\* SimpleMemory
\* ------------------------------------------------------------------------
EmptyMemory == [errors |-> <<>>, fixes |-> <<>>, executions |-> <<>>]

\* this.memory.errors.find(e => e.signature === signature), as an index; 0 when absent
ErrorIndex(errors, signature) ==
    IF \E i \in 1..Len(errors) : errors[i].signature = signature
    THEN CHOOSE i \in 1..Len(errors) :
            /\ errors[i].signature = signature
            /\ \A j \in 1..(i - 1) : errors[j].signature # signature
    ELSE 0

\* this.memory.fixes.filter(f => f.errorSignature === signature)
FixesFor(fixes, signature) ==
    LET F[i \in 0..Len(fixes)] ==
            IF i = 0 THEN <<>>
            ELSE IF fixes[i].errorSignature = signature
                 THEN Append(F[i - 1], fixes[i]) ELSE F[i - 1]
    IN  F[Len(fixes)]

\* load(): the file is parsed into this.memory, or the defaults are used
LoadedMemory(m, isLoaded, d) ==
    IF isLoaded THEN m ELSE IF d.exists THEN d.data ELSE EmptyMemory

\* save(): a failed write is logged and swallowed
SavedDisk(m, d, writeOk) == IF writeOk THEN [exists |-> TRUE, data |-> m] ELSE d

\* a recordError that pushes a new entry without looking for the signature
RecordErrorInAlwaysPush(m, errorMessage, t) ==
    [m EXCEPT !.errors = Append(@, [signature |-> generateSignature(errorMessage),
                                    message   |-> errorMessage,
                                    count     |-> 1,
                                    firstSeen |-> t,
                                    lastSeen  |-> t])]

\* recordError, between ensureLoaded() and save()
RecordErrorIn(m, errorMessage, t) ==
    LET signature == generateSignature(errorMessage)
        k == ErrorIndex(m.errors, signature)
    IN  IF k > 0
        THEN [m EXCEPT !.errors[k].count = @ + 1, !.errors[k].lastSeen = t]
        ELSE [m EXCEPT !.errors = Append(@, [signature |-> signature,
                                             message   |-> errorMessage,
                                             count     |-> 1,
                                             firstSeen |-> t,
                                             lastSeen  |-> t])]

\* recordFix, between ensureLoaded() and save()
NewFix(errorSignature, fixDescription, t) ==
    [errorSignature |-> errorSignature, description |-> fixDescription, createdAt |-> t]

RecordFixIn(m, errorSignature, fixDescription, t) ==
    [m EXCEPT !.fixes = Append(@, NewFix(errorSignature, fixDescription, t))]

\* Array.prototype.slice(0, limit), limit >= 0
SliceTo(s, limit) == SubSeq(s, 1, IF Len(s) < limit THEN Len(s) ELSE limit)

IsSimilar(e, queryLower) ==
    \/ Includes(ToLowerCase(e.message), queryLower)
    \/ Includes(queryLower, Substring0(ToLowerCase(e.message), SubstringLen))

SimilarErrors(m, query) ==
    LET queryLower == ToLowerCase(query)
        F[i \in 0..Len(m.errors)] ==
            IF i = 0 THEN <<>>
            ELSE IF IsSimilar(m.errors[i], queryLower)
                 THEN Append(F[i - 1], m.errors[i]) ELSE F[i - 1]
    IN  F[Len(m.errors)]

\* searchSimilarErrors selecting the fixes by the query text instead of its signature
SearchInFixesByQuery(m, query, limit) ==
    LET querySignature == generateSignature(query)
        k == ErrorIndex(m.errors, querySignature)
    IN  IF k > 0
        THEN [kind       |-> "exact",
              match      |-> m.errors[k],
              fixes      |-> FixesFor(m.fixes, <<"sha", query>>),
              confidence |-> ExactConfidence]
        ELSE [kind |-> "similar", matches |-> <<>>, count |-> 0]

\* searchSimilarErrors, after ensureLoaded()
SearchIn(m, query, limit) ==
    LET querySignature == generateSignature(query)
        k == ErrorIndex(m.errors, querySignature)
        similar == SliceTo(SimilarErrors(m, query), limit)
    IN  IF k > 0
        THEN [kind       |-> "exact",
              match      |-> m.errors[k],
              fixes      |-> FixesFor(m.fixes, querySignature),
              confidence |-> ExactConfidence]
        ELSE [kind    |-> "similar",
              matches |-> [i \in 1..Len(similar) |->
                            [error      |-> similar[i],
                             fixes      |-> FixesFor(m.fixes, similar[i].signature),
                             confidence |-> SimilarConfidence]],
              count   |-> Len(similar)]

\* Array.prototype.slice(-n), n >= 0: slice(-0) is slice(0), the whole array
SliceLast(s, n) ==
    IF n = 0 \/ Len(s) <= n THEN s ELSE SubSeq(s, Len(s) - n + 1, Len(s))

\* a recordExecution that cuts the log to its oldest entries
RecordExecutionInKeepOldest(m, toolName, args, success, error, t) ==
    LET pushed == Append(m.executions,
                         [tool |-> toolName, args |-> args, success |-> success,
                          error |-> error, timestamp |-> t])
    IN  [m EXCEPT !.executions =
            IF Len(pushed) > MaxExecutions THEN SubSeq(pushed, 1, MaxExecutions) ELSE pushed]

\* recordExecution, between ensureLoaded() and save()
RecordExecutionIn(m, toolName, args, success, error, t) ==
    LET pushed == Append(m.executions,
                         [tool |-> toolName, args |-> args, success |-> success,
                          error |-> error, timestamp |-> t])
    IN  [m EXCEPT !.executions =
            IF Len(pushed) > MaxExecutions THEN SliceLast(pushed, MaxExecutions) ELSE pushed]

\* A rate as the fraction <<numerator, denominator>>
ZeroRate == <<0, 1>>

\* executions.length > 0 ? successCount / executions.length : 0
SuccessRate(executions) ==
    IF Len(executions) > 0
    THEN <<Cardinality({i \in 1..Len(executions) : executions[i].success}), Len(executions)>>
    ELSE ZeroRate

\* getStats, after ensureLoaded(); the rate is kept as the pair it is computed from
StatsOf(m) ==
    [errorSignatures |-> Len(m.errors),
     fixes           |-> Len(m.fixes),
     executions      |-> Len(m.executions),
     successCount    |-> Cardinality({i \in 1..Len(m.executions) : m.executions[i].success}),
     successRate     |-> SuccessRate(m.executions)]

\* The signatures a caller may hold: those of the texts, and one the store never made
Signatures == {generateSignature(t) : t \in ErrorTexts} \cup {<<"sha", <<"?">>>>}

\* The store as one value: what a SimpleMemory call reads and what it leaves
Store == [memory |-> memory, loaded |-> loaded, disk |-> disk, now |-> now]

SetStore(S) ==
    /\ memory' = S.memory
    /\ loaded' = S.loaded
    /\ disk' = S.disk
    /\ now' = S.now

\* async recordError(errorMessage): ensureLoaded, record, save
StoreRecordError(S, errorMessage, writeOk) ==
    LET m == RecordErrorIn(LoadedMemory(S.memory, S.loaded, S.disk), errorMessage, S.now)
    IN  [memory |-> m, loaded |-> TRUE, disk |-> SavedDisk(m, S.disk, writeOk), now |-> S.now + 1]

\* async recordFix(errorSignature, fixDescription): ensureLoaded, push, save
StoreRecordFix(S, errorSignature, fixDescription, writeOk) ==
    LET m == RecordFixIn(LoadedMemory(S.memory, S.loaded, S.disk),
                         errorSignature, fixDescription, S.now)
    IN  [memory |-> m, loaded |-> TRUE, disk |-> SavedDisk(m, S.disk, writeOk), now |-> S.now + 1]

\* ensureLoaded() alone, as searchSimilarErrors and getStats leave the store
StoreLoaded(S) ==
    [memory |-> LoadedMemory(S.memory, S.loaded, S.disk), loaded |-> TRUE,
     disk |-> S.disk, now |-> S.now + 1]

\* async recordExecution(toolName, args, success, error): ensureLoaded, push, cut, save
StoreRecordExecution(S, toolName, args, success, error, writeOk) ==
    LET m == RecordExecutionIn(LoadedMemory(S.memory, S.loaded, S.disk),
                               toolName, args, success, error, S.now)
    IN  [memory |-> m, loaded |-> TRUE, disk |-> SavedDisk(m, S.disk, writeOk), now |-> S.now + 1]

recordError(errorMessage, writeOk) ==
    /\ SetStore(StoreRecordError(Store, errorMessage, writeOk))
    /\ memCall' = [op |-> "recordError", arg |-> errorMessage,
                   result |-> generateSignature(errorMessage)]

recordFix(errorSignature, fixDescription, writeOk) ==
    /\ SetStore(StoreRecordFix(Store, errorSignature, fixDescription, writeOk))
    /\ memCall' = [op |-> "recordFix", arg |-> <<errorSignature, fixDescription>>,
                   result |-> NewFix(errorSignature, fixDescription, now)]

searchSimilarErrors(query, limit) ==
    /\ SetStore(StoreLoaded(Store))
    /\ memCall' = [op |-> "searchSimilarErrors", arg |-> query,
                   result |-> SearchIn(StoreLoaded(Store).memory, query, limit)]

recordExecution(toolName, args, success, error, writeOk) ==
    /\ SetStore(StoreRecordExecution(Store, toolName, args, success, error, writeOk))
    /\ memCall' = [op |-> "recordExecution", arg |-> toolName, result |-> "undefined"]

getStats ==
    /\ SetStore(StoreLoaded(Store))
    /\ memCall' = [op |-> "getStats", arg |-> "none",
                   result |-> StatsOf(StoreLoaded(Store).memory)]


\* ------------------------------------------------------------------------
\* toolSchema: TOOL_SCHEMA, getAllTools, getDebugTools, getTool, validateToolCall
\* ------------------------------------------------------------------------
Tool(name, hasRequired, required) ==
    [name |-> name, hasRequired |-> hasRequired, required |-> required]

\* Object.values(TOOL_SCHEMA): each tool's name and parameters.required
\* (hasRequired is FALSE where the schema has no `required` key)
TOOL_SCHEMA ==
    << Tool("compile_sketch", TRUE, <<>>),
       Tool("upload_sketch", TRUE, <<>>),
       Tool("list_boards", FALSE, <<>>),
       Tool("list_ports", FALSE, <<>>),
       Tool("connect_serial", TRUE, <<"port">>),
       Tool("disconnect_serial", FALSE, <<>>),
       Tool("send_serial", TRUE, <<"data">>),
       Tool("read_serial", FALSE, <<>>),
       Tool("auto_detect_baud", TRUE, <<"port">>),
       Tool("get_baud_rate", FALSE, <<>>),
       Tool("set_baud_rate", TRUE, <<"baudRate">>),
       Tool("get_available_baud_rates", FALSE, <<>>),
       Tool("get_editor_code", FALSE, <<>>),
       Tool("set_editor_code", TRUE, <<"code">>),
       Tool("edit_code", TRUE, <<"operation", "startLine">>),
       Tool("search_code", TRUE, <<"searchText">>),
       Tool("replace_in_code", TRUE, <<"searchText", "replaceText">>),
       Tool("get_current_sketch_path", FALSE, <<>>),
       Tool("save_sketch", FALSE, <<>>),
       Tool("analyze_error", TRUE, <<"errorMessage">>),
       Tool("search_memory", TRUE, <<"query">>),
       Tool("record_fix", TRUE, <<"errorSignature", "fix">>),
       Tool("get_current_state", FALSE, <<>>) >>

DEBUG_TOOL_NAMES == <<"analyze_error", "search_memory", "record_fix">>

getAllTools == TOOL_SCHEMA

\* Object.values(TOOL_SCHEMA).filter(t => DEBUG_TOOL_NAMES.includes(t.name))
getDebugTools ==
    LET F[i \in 0..Len(TOOL_SCHEMA)] ==
            IF i = 0 THEN <<>>
            ELSE IF \E j \in 1..Len(DEBUG_TOOL_NAMES) : DEBUG_TOOL_NAMES[j] = TOOL_SCHEMA[i].name
                 THEN Append(F[i - 1], TOOL_SCHEMA[i]) ELSE F[i - 1]
    IN  F[Len(TOOL_SCHEMA)]

ToolNames(tools) == {tools[i].name : i \in 1..Len(tools)}

\* getTool(name), as an index into TOOL_SCHEMA; 0 when find() returns undefined
getTool(name) ==
    IF \E i \in 1..Len(TOOL_SCHEMA) : TOOL_SCHEMA[i].name = name
    THEN CHOOSE i \in 1..Len(TOOL_SCHEMA) : TOOL_SCHEMA[i].name = name
    ELSE 0

\* A tool call: [id, name, hasArgs, arguments]. name = "" stands for a missing
\* name; hasArgs = FALSE for a call whose `arguments` is undefined.
HasArg(toolCall, key) == toolCall.hasArgs /\ key \in DOMAIN toolCall.arguments

\* The first required parameter that is not a key of the arguments; 0 when none
FirstMissing(toolCall, required) ==
    IF \E i \in 1..Len(required) : required[i] \notin DOMAIN toolCall.arguments
    THEN CHOOSE i \in 1..Len(required) :
            /\ required[i] \notin DOMAIN toolCall.arguments
            /\ \A j \in 1..(i - 1) : required[j] \in DOMAIN toolCall.arguments
    ELSE 0

Validation(valid, threw, error) == [valid |-> valid, threw |-> threw, error |-> error]

\* validateToolCall that skips the required-parameter loop
validateToolCallNoRequired(toolCall) ==
    IF toolCall.name = "" THEN Validation(FALSE, FALSE, "Tool name is required")
    ELSE IF getTool(toolCall.name) = 0
         THEN Validation(FALSE, FALSE, "Unknown tool: " \o toolCall.name)
         ELSE Validation(TRUE, FALSE, "")

\* validateToolCall(toolCall): `param in toolCall.arguments` throws a TypeError
\* when arguments is undefined and the tool requires a parameter
validateToolCall(toolCall) ==
    LET k == getTool(toolCall.name)
    IN  IF toolCall.name = "" THEN Validation(FALSE, FALSE, "Tool name is required")
        ELSE IF k = 0 THEN Validation(FALSE, FALSE, "Unknown tool: " \o toolCall.name)
        ELSE IF TOOL_SCHEMA[k].hasRequired /\ Len(TOOL_SCHEMA[k].required) > 0
        THEN IF ~toolCall.hasArgs
             THEN Validation(FALSE, TRUE,
                    "Cannot use 'in' operator to search for '"
                    \o TOOL_SCHEMA[k].required[1] \o "' in undefined")
             ELSE IF FirstMissing(toolCall, TOOL_SCHEMA[k].required) > 0
             THEN Validation(FALSE, FALSE, "Missing required parameter: "
                    \o TOOL_SCHEMA[k].required[FirstMissing(toolCall, TOOL_SCHEMA[k].required)])
             ELSE Validation(TRUE, FALSE, "")
        ELSE Validation(TRUE, FALSE, "")

\* ------------------------------------------------------------------------
\* ToolExecutor and its collaborators
\* ------------------------------------------------------------------------
NoSketchMsg == "No sketch open. Please open a .ino file first (Open Sketch in the sidebar)."
NoBoardCompileMsg == "No board selected. Please select a board from the Board dropdown in the sidebar."
NoBoardUploadMsg == "No board selected. Please select a board from the Board dropdown."
NoPortMsg == "No port selected. Please select a port from the Port dropdown (and connect your board via USB)."

\* What a handler leaves behind: the transport's fields and the Memory Store
ExecState ==
    [isConnected |-> isConnected, currentBaudRate |-> currentBaudRate,
     dataListeners |-> dataListeners, store |-> Store]

\* A handler's result object: success is "true", "false" or "undefined"
HandlerResult(success, error, data) == [success |-> success, error |-> error, data |-> data]

\* A handler that returned `result`, having invoked the collaborators `invoked`
Returned(st, result, invoked) ==
    [thrown |-> FALSE, error |-> "", result |-> result, invoked |-> invoked, st |-> st]

\* A handler that threw `error`
Thrown(st, error, invoked) ==
    [thrown |-> TRUE, error |-> error,
     result |-> HandlerResult("undefined", "undefined", "none"), invoked |-> invoked, st |-> st]

\* (args.key || '').trim(), with args = {} when the call had no arguments
ArgText(toolCall, key) ==
    IF HasArg(toolCall, key) THEN Trim(toolCall.arguments[key]) ELSE <<>>

\* a resolution that asks the editor first and uses the argument only when
\* the editor has nothing
ResolvedEditorFirst(toolCall, key, uiValue) ==
    IF hasUICallbacks /\ uiValue # <<>> THEN uiValue ELSE ArgText(toolCall, key)

\* The value resolved from the arguments, else from the editor's callbacks
Resolved(toolCall, key, uiValue) ==
    IF ArgText(toolCall, key) = <<>> /\ hasUICallbacks THEN uiValue ELSE ArgText(toolCall, key)

Asked(toolCall, key, callback) ==
    IF ArgText(toolCall, key) = <<>> /\ hasUICallbacks THEN <<callback>> ELSE <<>>

\* no compiler or uploader call was made
NothingPassed == [sketchPath |-> <<>>, boardFQBN |-> <<>>, port |-> <<>>]

\* this.arduinoService.compile(sketchPath, boardFQBN) and
\* this.arduinoService.upload(sketchPath, boardFQBN, port): the arguments of
\* the call, when the handler came to make it
PassedArgs(toolCall, invoked) ==
    IF \E i \in 1..Len(invoked) : invoked[i] = "arduino.compile"
    THEN [sketchPath |-> Resolved(toolCall, "sketchPath", uiState.currentSketchPath),
          boardFQBN |-> Resolved(toolCall, "boardFQBN", uiState.selectedBoard),
          port |-> <<>>]
    ELSE IF \E i \in 1..Len(invoked) : invoked[i] = "arduino.upload"
    THEN [sketchPath |-> Resolved(toolCall, "sketchPath", uiState.currentSketchPath),
          boardFQBN |-> Resolved(toolCall, "boardFQBN", uiState.selectedBoard),
          port |-> Resolved(toolCall, "port", uiState.selectedPort)]
    ELSE NothingPassed

\* handlers that never ask the editor to save
SaveCallNever == <<>>

\* await this.uiCallbacks.saveSketch(sketchPath), when the callbacks are set
SaveCall == IF hasUICallbacks THEN <<"ui.saveSketch">> ELSE <<>>

\* async executeCompile(args = {})
executeCompile(toolCall, st, env) ==
    LET sketchPath == Resolved(toolCall, "sketchPath", uiState.currentSketchPath)
        boardFQBN == Resolved(toolCall, "boardFQBN", uiState.selectedBoard)
        asked == Asked(toolCall, "sketchPath", "ui.getCurrentSketchPath")
                 \o Asked(toolCall, "boardFQBN", "ui.getSelectedBoard")
    IN  IF sketchPath = <<>>
        THEN Returned(st, HandlerResult("false", NoSketchMsg, "none"), asked)
        ELSE IF boardFQBN = <<>>
        THEN Returned(st, HandlerResult("false", NoBoardCompileMsg, "none"), asked)
        ELSE IF hasUICallbacks /\ env.saveThrows
        THEN Thrown(st, "EACCES: permission denied", asked \o SaveCall)
        ELSE IF env.ioThrows
        THEN Returned(st, HandlerResult("false", "Compilation failed", "none"),
                      asked \o SaveCall \o <<"arduino.compile">>)
        ELSE Returned(st, HandlerResult("true", "undefined", "compiled"),
                      asked \o SaveCall \o <<"arduino.compile">>)

\* a disconnect() that leaves the port open
DisconnectedNot(st) == st

\* SerialMonitor.disconnect()
Disconnected(st) == [st EXCEPT !.isConnected = FALSE]

\* async executeUpload(args = {})
executeUpload(toolCall, st, env) ==
    LET sketchPath == Resolved(toolCall, "sketchPath", uiState.currentSketchPath)
        boardFQBN == Resolved(toolCall, "boardFQBN", uiState.selectedBoard)
        port == Resolved(toolCall, "port", uiState.selectedPort)
        asked == Asked(toolCall, "sketchPath", "ui.getCurrentSketchPath")
                 \o Asked(toolCall, "boardFQBN", "ui.getSelectedBoard")
                 \o Asked(toolCall, "port", "ui.getSelectedPort")
        freed == asked \o (IF st.isConnected THEN <<"serial.disconnect">> ELSE <<>>)
        st1 == Disconnected(st)
    IN  IF sketchPath = <<>>
        THEN Returned(st, HandlerResult("false", NoSketchMsg, "none"), asked)
        ELSE IF boardFQBN = <<>>
        THEN Returned(st, HandlerResult("false", NoBoardUploadMsg, "none"), asked)
        ELSE IF port = <<>>
        THEN Returned(st, HandlerResult("false", NoPortMsg, "none"), asked)
        ELSE IF hasUICallbacks /\ env.saveThrows
        THEN Thrown(st1, "EACCES: permission denied", freed \o SaveCall)
        ELSE IF env.ioThrows
        THEN Returned(st1, HandlerResult("false", "Upload failed", "none"),
                      freed \o SaveCall \o <<"arduino.upload">>)
        ELSE Returned(st1, HandlerResult("true", "undefined", "uploaded"),
                      freed \o SaveCall \o <<"arduino.upload">>)

\* async executeListBoards() / executeListPorts()
executeList(call, st, env) ==
    IF env.ioThrows THEN Thrown(st, "arduino-cli not found", <<call>>)
    ELSE Returned(st, HandlerResult("undefined", "undefined", "list"), <<call>>)

DefaultBaudRate == 115200

BaudRateOf(toolCall) ==
    IF HasArg(toolCall, "baudRate") THEN toolCall.arguments.baudRate ELSE DefaultBaudRate

\* SerialMonitor.connect(port, baudRate): an open connection is closed first
Connected(st, baudRate) ==
    [st EXCEPT !.isConnected = TRUE, !.currentBaudRate = baudRate]

\* async executeConnectSerial(args): connect, then register a 'data' listener
executeConnectSerial(toolCall, st, env) ==
    IF env.ioThrows
    THEN Thrown(Disconnected(st), "Failed to create serial connection: Failed to open port",
                <<"serial.connect">>)
    ELSE Returned([Connected(st, BaudRateOf(toolCall)) EXCEPT !.dataListeners = @ + 1],
                  HandlerResult("undefined", "undefined", "connected"),
                  <<"serial.connect", "serial.on">>)

\* async executeDisconnectSerial()
executeDisconnectSerial(toolCall, st, env) ==
    Returned(Disconnected(st), HandlerResult("undefined", "undefined", "disconnected"),
             <<"serial.disconnect">>)

\* async executeSendSerial(args)
executeSendSerial(toolCall, st, env) ==
    IF ~st.isConnected THEN Thrown(st, "Serial port not connected", <<"serial.send">>)
    ELSE IF env.ioThrows THEN Thrown(st, "Failed to send data", <<"serial.send">>)
    ELSE Returned(st, HandlerResult("undefined", "undefined", "sent"), <<"serial.send">>)

DefaultReadLines == 50

\* async executeReadSerial(args): destructuring undefined arguments throws
executeReadSerial(toolCall, st, env) ==
    IF ~toolCall.hasArgs
    THEN Thrown(st, "Cannot destructure property 'lines' of 'args' as it is undefined.", <<>>)
    ELSE LET lines == IF HasArg(toolCall, "lines") THEN toolCall.arguments.lines
                      ELSE DefaultReadLines
         IN  Returned(st, HandlerResult("undefined", "undefined",
                            [lines |-> SliceLast(serialBuffer, lines),
                             totalBuffered |-> Len(serialBuffer)]), <<>>)

FirstCommonBaudRate == 9600

\* async executeAutoDetectBaud(args): tryBaudRates connects at each common rate
\* until one connection stays open
executeAutoDetectBaud(toolCall, st, env) ==
    IF env.ioThrows
    THEN Returned(Disconnected(st),
                  HandlerResult("false", "Could not detect baud rate", "none"),
                  <<"serial.tryBaudRates">>)
    ELSE Returned(Connected(st, FirstCommonBaudRate),
                  HandlerResult("true", "undefined", "detected"), <<"serial.tryBaudRates">>)

Plain(data) == HandlerResult("undefined", "undefined", data)

Succeeded(data) == HandlerResult("true", "undefined", data)

Failed(error) == HandlerResult("false", error, "none")

\* this.availableBaudRates
availableBaudRates ==
    {300, 1200, 2400, 4800, 9600, 19200, 38400, 57600, 74880, 115200,
     230400, 250000, 500000, 1000000, 2000000}

\* async executeGetBaudRate()
executeGetBaudRate(toolCall, st, env) ==
    IF hasUICallbacks THEN Returned(st, Plain("baudRate"), <<"ui.getBaudRate">>)
    ELSE IF st.currentBaudRate # 0 THEN Returned(st, Plain("baudRate"), <<>>)
    ELSE Returned(st, HandlerResult("undefined", "No baud rate information available", "none"),
                  <<>>)

\* async executeSetBaudRate(args)
executeSetBaudRate(toolCall, st, env) ==
    IF toolCall.arguments.baudRate \notin availableBaudRates
    THEN Returned(st, Failed("Invalid baud rate"), <<>>)
    ELSE IF hasUICallbacks THEN Returned(st, Succeeded("baudRate"), <<"ui.setBaudRate">>)
    ELSE Returned(st, Failed("Unable to set baud rate - UI callback not available"), <<>>)

\* executeGetAvailableBaudRates()
executeGetAvailableBaudRates(toolCall, st, env) == Returned(st, Plain("baudRates"), <<>>)

\* async executeGetEditorCode()
executeGetEditorCode(toolCall, st, env) ==
    IF hasUICallbacks THEN Returned(st, Plain("code"), <<"ui.getEditorCode">>)
    ELSE Returned(st, HandlerResult("undefined",
                        "Unable to get editor code - UI callback not available", "none"), <<>>)

\* async executeSetEditorCode(args)
executeSetEditorCode(toolCall, st, env) ==
    IF hasUICallbacks THEN Returned(st, Succeeded("none"), <<"ui.setEditorCode">>)
    ELSE Returned(st, Failed("Unable to set editor code - UI callback not available"), <<>>)

\* async executeEditCode(args)
executeEditCode(toolCall, st, env) ==
    IF ~hasUICallbacks
    THEN Returned(st, Failed("Unable to edit code - UI callbacks not available"), <<>>)
    ELSE IF toolCall.arguments.operation \in {"replace", "insert", "delete"}
    THEN Returned(st, Succeeded(toolCall.arguments.operation),
                  <<"ui.getEditorCode", "ui.setEditorCode">>)
    ELSE Returned(st, Failed("Unknown operation: " \o toolCall.arguments.operation),
                  <<"ui.getEditorCode">>)

\* async executeSearchCode(args)
executeSearchCode(toolCall, st, env) ==
    IF ~hasUICallbacks
    THEN Returned(st, Failed("Unable to search code - UI callback not available"), <<>>)
    ELSE Returned(st, Plain("matches"), <<"ui.getEditorCode">>)

\* async executeReplaceInCode(args)
executeReplaceInCode(toolCall, st, env) ==
    IF ~hasUICallbacks
    THEN Returned(st, Failed("Unable to replace in code - UI callbacks not available"), <<>>)
    ELSE Returned(st, Succeeded("replaced"), <<"ui.getEditorCode", "ui.setEditorCode">>)

\* async executeGetCurrentSketchPath()
executeGetCurrentSketchPath(toolCall, st, env) ==
    IF hasUICallbacks THEN Returned(st, Plain(uiState.currentSketchPath),
                                    <<"ui.getCurrentSketchPath">>)
    ELSE Returned(st, HandlerResult("undefined",
                        "Unable to get sketch path - UI callback not available", "none"), <<>>)

\* async executeSaveSketch(args): destructuring undefined arguments throws
executeSaveSketch(toolCall, st, env) ==
    IF ~toolCall.hasArgs
    THEN Thrown(st, "Cannot destructure property 'path' of 'args' as it is undefined.", <<>>)
    ELSE IF ~hasUICallbacks
    THEN Returned(st, Failed("Unable to save sketch - UI callback not available"), <<>>)
    ELSE IF env.saveThrows THEN Thrown(st, "EACCES: permission denied", <<"ui.saveSketch">>)
    ELSE Returned(st, Succeeded("path"), <<"ui.saveSketch">>)

\* async executeAnalyzeError(args)
executeAnalyzeError(toolCall, st, env) ==
    Returned([st EXCEPT !.store = StoreLoaded(st.store)],
             Plain(SearchIn(StoreLoaded(st.store).memory, toolCall.arguments.errorMessage,
                            DefaultSearchLimit)),
             <<"memory.searchSimilarErrors", "errorMemory.analyzeError">>)

DefaultSearchMemoryLimit == 10

\* async executeSearchMemory(args)
executeSearchMemory(toolCall, st, env) ==
    Returned([st EXCEPT !.store = StoreLoaded(st.store)],
             Plain(SearchIn(StoreLoaded(st.store).memory, toolCall.arguments.query,
                            IF HasArg(toolCall, "limit") THEN toolCall.arguments.limit
                            ELSE DefaultSearchMemoryLimit)),
             <<"memory.searchSimilarErrors">>)

\* async executeRecordFix(args)
executeRecordFix(toolCall, st, env) ==
    Returned([st EXCEPT !.store = StoreRecordFix(st.store, toolCall.arguments.errorSignature,
                                                 toolCall.arguments.fix, env.writeOk)],
             Plain(NewFix(toolCall.arguments.errorSignature, toolCall.arguments.fix,
                          st.store.now)),
             <<"memory.recordFix">>)

\* async executeGetCurrentState()
executeGetCurrentState(toolCall, st, env) ==
    Returned(st, Plain([serialConnected |-> st.isConnected,
                        serialBufferSize |-> Len(serialBuffer)]),
             IF hasUICallbacks
             THEN <<"ui.getBaudRate", "ui.getCurrentSketchPath",
                    "ui.getSelectedBoard", "ui.getSelectedPort">>
             ELSE <<>>)

\* the switch of execute(): one handler per tool name
Dispatch(toolCall, st, env) ==
    CASE toolCall.name = "compile_sketch" -> executeCompile(toolCall, st, env)
      [] toolCall.name = "upload_sketch" -> executeUpload(toolCall, st, env)
      [] toolCall.name = "list_boards" -> executeList("arduino.listBoards", st, env)
      [] toolCall.name = "list_ports" -> executeList("arduino.listPorts", st, env)
      [] toolCall.name = "connect_serial" -> executeConnectSerial(toolCall, st, env)
      [] toolCall.name = "disconnect_serial" -> executeDisconnectSerial(toolCall, st, env)
      [] toolCall.name = "send_serial" -> executeSendSerial(toolCall, st, env)
      [] toolCall.name = "read_serial" -> executeReadSerial(toolCall, st, env)
      [] toolCall.name = "auto_detect_baud" -> executeAutoDetectBaud(toolCall, st, env)
      [] toolCall.name = "get_baud_rate" -> executeGetBaudRate(toolCall, st, env)
      [] toolCall.name = "set_baud_rate" -> executeSetBaudRate(toolCall, st, env)
      [] toolCall.name = "get_available_baud_rates" ->
            executeGetAvailableBaudRates(toolCall, st, env)
      [] toolCall.name = "get_editor_code" -> executeGetEditorCode(toolCall, st, env)
      [] toolCall.name = "set_editor_code" -> executeSetEditorCode(toolCall, st, env)
      [] toolCall.name = "edit_code" -> executeEditCode(toolCall, st, env)
      [] toolCall.name = "search_code" -> executeSearchCode(toolCall, st, env)
      [] toolCall.name = "replace_in_code" -> executeReplaceInCode(toolCall, st, env)
      [] toolCall.name = "get_current_sketch_path" ->
            executeGetCurrentSketchPath(toolCall, st, env)
      [] toolCall.name = "save_sketch" -> executeSaveSketch(toolCall, st, env)
      [] toolCall.name = "analyze_error" -> executeAnalyzeError(toolCall, st, env)
      [] toolCall.name = "search_memory" -> executeSearchMemory(toolCall, st, env)
      [] toolCall.name = "record_fix" -> executeRecordFix(toolCall, st, env)
      [] toolCall.name = "get_current_state" -> executeGetCurrentState(toolCall, st, env)
      [] OTHER -> Thrown(st, "Unknown tool: " \o toolCall.name, <<>>)

NoResult == HandlerResult("undefined", "undefined", "none")

\* The object execute() resolves with
ToolResult(success, tool, error, result) ==
    [success |-> success, tool |-> tool, error |-> error, result |-> result]

\* toolCall.arguments as recordExecution stores it
LoggedArgs(toolCall) == IF toolCall.hasArgs THEN toolCall.arguments ELSE "undefined"

\* How an execute() call settles
Settled(settled, value, invoked, st) ==
    [settled |-> settled, value |-> value, invoked |-> invoked, st |-> st]

\* the tail of execute(): recordExecution, then the wrapper with success: true
Wrap(toolCall, h, env) ==
    Settled("resolved",
            ToolResult(TRUE, toolCall.name, "undefined", h.result),
            h.invoked \o <<"memory.recordExecution">>,
            [h.st EXCEPT !.store = StoreRecordExecution(h.st.store, toolCall.name,
                                        LoggedArgs(toolCall), h.result.success # "false",
                                        h.result.error, env.writeOk)])

\* async execute(toolCall)
Execute(toolCall, st, env) ==
    LET validation == validateToolCall(toolCall)
        h == Dispatch(toolCall, st, env)
    IN  IF validation.threw
        THEN Settled("rejected", ToolResult(FALSE, toolCall.name, validation.error, NoResult),
                     <<>>, st)
        ELSE IF ~validation.valid
        THEN Settled("resolved", ToolResult(FALSE, toolCall.name, validation.error, NoResult),
                     <<>>, st)
        ELSE IF h.thrown
        THEN Settled("resolved", ToolResult(FALSE, toolCall.name, h.error, NoResult),
                     h.invoked, h.st)
        ELSE Wrap(toolCall, h, env)

\* What the collaborators may do during one execute() call
Envs == [saveThrows : BOOLEAN, ioThrows : BOOLEAN, writeOk : BOOLEAN]

\* The collaborators one call can reach: the editor's save for the tools that
\* save, a device or the CLI for the tools that use one, the store's file for
\* every call that passes validation
SavingTools == {"compile_sketch", "upload_sketch", "save_sketch"}

DeviceTools ==
    {"compile_sketch", "upload_sketch", "list_boards", "list_ports", "connect_serial",
     "send_serial", "auto_detect_baud"}

EnvsFor(toolCall) ==
    {env \in Envs :
        /\ env.saveThrows => toolCall.name \in SavingTools
        /\ env.ioThrows => toolCall.name \in DeviceTools
        /\ ~env.writeOk => getTool(toolCall.name) # 0}

SetExecState(st) ==
    /\ isConnected' = st.isConnected
    /\ currentBaudRate' = st.currentBaudRate
    /\ dataListeners' = st.dataListeners
    /\ SetStore(st.store)

\* ------------------------------------------------------------------------
\* AIAgent
\* ------------------------------------------------------------------------
DefaultMaxIterations == 10

\* constructor: { maxIterations: config.maxIterations || 10, ..., ...config }.
\* The spread puts back whatever config.maxIterations holds, so a caller's
\* value is kept and the default is used only when the key is absent (0 here).
ConfigMaxIterations(given) == IF given = 0 THEN DefaultMaxIterations ELSE given

\* _getToolsForMode that gives debug mode the whole registry
getToolsForModeNoDebug(m) == IF m = "ask" THEN <<>> ELSE getAllTools

\* _getToolsForMode(mode)
getToolsForMode(m) ==
    IF m = "ask" THEN <<>>
    ELSE IF m = "debug" THEN getDebugTools
    ELSE getAllTools

Message(role, content, toolCalls, toolCallId, name) ==
    [role |-> role, content |-> content, tool_calls |-> toolCalls,
     tool_call_id |-> toolCallId, name |-> name]

\* The IDE context tags of processQuery
ContextTags(context) ==
    (IF ~context.hasFileOpen THEN <<"NO_FILE_OPEN">>
     ELSE IF context.currentSketchPath # <<>> THEN <<<<"sketch=", context.currentSketchPath>>>>
     ELSE <<>>)
    \o (IF context.selectedBoard # <<>> THEN <<<<"board=", context.selectedBoard>>>> ELSE <<>>)
    \o (IF context.selectedPort # <<>> THEN <<<<"port=", context.selectedPort>>>> ELSE <<>>)

\* `[IDE: ...]\n\n${userQuery}`, or the query alone when there is no tag
UserContent(userQuery, context) == [ide |-> ContextTags(context), text |-> userQuery]

UserMessage(userQuery, context) ==
    Message("user", UserContent(userQuery, context), <<>>, "undefined", "undefined")

SystemMessage(m) == Message("system", <<"system prompt", m>>, <<>>, "undefined", "undefined")

AssistantText(content) == Message("assistant", content, <<>>, "undefined", "undefined")

\* JSON.stringify(tc.arguments || {})
StringifyArgs(toolCall) == <<"json", IF toolCall.hasArgs THEN toolCall.arguments ELSE <<>>>>

\* the assistant message that carries the proposed tool calls
AssistantToolCalls(response) ==
    Message("assistant",
            IF response.content = "" THEN "null" ELSE response.content,
            [i \in 1..Len(response.toolCalls) |->
                [id |-> response.toolCalls[i].id,
                 name |-> response.toolCalls[i].name,
                 arguments |-> StringifyArgs(response.toolCalls[i])]],
            "undefined", "undefined")

\* the tool-result message correlated to a constant id
ToolMessageNoId(toolCall, result) ==
    Message("tool", <<"json", result>>, <<>>, "call", toolCall.name)

\* the tool-result message of one executed call
ToolMessage(toolCall, result) ==
    Message("tool", <<"json", result>>, <<>>, toolCall.id, toolCall.name)

NoTurnResult ==
    [response |-> "none", toolResults |-> <<>>, warning |-> "undefined", source |-> "none",
     match |-> <<>>, fixes |-> <<>>, confidence |-> 0]

\* analyzeError's memoryResults before searchSimilarErrors was called
NoMemoryResults == [kind |-> "none"]

\* What the entry point hands back of processQuery's result: analyzeError
\* keeps the response and the tool results under source 'ai', the others
\* return the result itself
Delivered(entry, result) ==
    IF entry = "analyzeError"
    THEN [result EXCEPT !.warning = "undefined", !.source = "ai"]
    ELSE result

\* --- the provider adapters: formatTools and the request chat() sends ---

\* tool.parameters, as far as the model keeps it: the `required` key
Parameters(tool) == [hasRequired |-> tool.hasRequired, required |-> tool.required]

\* !msg.content: null or '' (a system prompt and a stringified tool result are
\* never empty)
ContentIsFalsy(msg) ==
    CASE msg.role = "assistant" -> msg.content \in {"null", ""}
      [] msg.role = "user" -> msg.content.ide = <<>> /\ msg.content.text = ""
      [] OTHER -> FALSE

\* JSON.parse of what JSON.stringify made of the arguments
ParseArgs(raw) == raw[2]

\* OpenAIProvider.formatTools(tools)
OpenAIFormatTools(tools) ==
    [i \in 1..Len(tools) |->
        [type |-> "function",
         function |-> [name |-> tools[i].name, parameters |-> Parameters(tools[i])]]]

\* OpenAIProvider.chat: requestOptions
OpenAIChat(messages, tools) ==
    IF tools # <<>>
    THEN [messages |-> messages, tools |-> OpenAIFormatTools(tools), tool_choice |-> "auto"]
    ELSE [messages |-> messages]

\* ClaudeProvider.formatTools(tools)
ClaudeFormatTools(tools) ==
    [i \in 1..Len(tools) |-> [name |-> tools[i].name, input_schema |-> Parameters(tools[i])]]

\* ClaudeProvider.chat: what one message that is not a system message becomes
ClaudeMessage(msg) ==
    IF msg.role = "tool"
    THEN [role |-> "user",
          content |-> <<[type |-> "tool_result", tool_use_id |-> msg.tool_call_id,
                         content |-> msg.content]>>]
    ELSE IF msg.role = "assistant"
    THEN IF msg.tool_calls # <<>>
         THEN [role |-> "assistant",
               content |->
                 (IF ContentIsFalsy(msg) THEN <<>>
                  ELSE <<[type |-> "text", text |-> msg.content]>>)
                 \o [k \in 1..Len(msg.tool_calls) |->
                        [type |-> "tool_use", id |-> msg.tool_calls[k].id,
                         name |-> msg.tool_calls[k].name,
                         input |-> ParseArgs(msg.tool_calls[k].arguments)]]]
         ELSE [role |-> "assistant",
               content |-> IF ContentIsFalsy(msg) THEN "" ELSE msg.content]
    ELSE [role |-> "user", content |-> msg.content]

\* ClaudeProvider.chat: createOptions. `system` is the system contents, each
\* followed by a newline, as the list of those contents (empty for undefined)
ClaudeChat(messages, tools) ==
    LET F[i \in 0..Len(messages)] ==
            IF i = 0 THEN [system |-> <<>>, messages |-> <<>>]
            ELSE IF messages[i].role = "system"
                 THEN [F[i - 1] EXCEPT !.system = Append(@, messages[i].content)]
                 ELSE [F[i - 1] EXCEPT !.messages = Append(@, ClaudeMessage(messages[i]))]
        c == F[Len(messages)]
    IN  IF tools # <<>>
        THEN [system |-> c.system, messages |-> c.messages, tools |-> ClaudeFormatTools(tools)]
        ELSE [system |-> c.system, messages |-> c.messages]

\* GeminiProvider.formatTools(tools): chat() never calls it
GeminiFormatTools(tools) ==
    [i \in 1..Len(tools) |->
        [name |-> tools[i].name,
         parameters |-> [type |-> "object", required |-> tools[i].required]]]

\* GeminiProvider.convertMessagesToGemini(messages); systemInstruction is a
\* list of at most one content (empty for null)
convertMessagesToGemini(messages) ==
    LET F[i \in 0..Len(messages)] ==
            IF i = 0 THEN [systemInstruction |-> <<>>, contents |-> <<>>]
            ELSE IF ContentIsFalsy(messages[i]) THEN F[i - 1]
            ELSE IF messages[i].role = "system"
                 THEN [F[i - 1] EXCEPT !.systemInstruction = <<messages[i].content>>]
                 ELSE [F[i - 1] EXCEPT !.contents =
                         Append(@, [role |-> IF messages[i].role = "assistant"
                                             THEN "model" ELSE "user",
                                    parts |-> <<[text |-> messages[i].content]>>])]
        c == F[Len(messages)]
    IN  IF c.contents = <<>>
        THEN [c EXCEPT !.contents = <<[role |-> "user", parts |-> <<[text |-> "Hello"]>>]>>]
        ELSE c

\* GeminiProvider.chat: the argument of generateContent
GeminiChat(messages, tools) ==
    [contents |-> convertMessagesToGemini(messages).contents,
     systemInstruction |-> convertMessagesToGemini(messages).systemInstruction]

\* no request was sent in this turn
NoRequest == [messages |-> <<>>]

\* this.currentProvider.chat(messages, chatOptions): the request the selected
\* provider's adapter sends to its vendor
chat(providerName, messages, tools) ==
    CASE providerName = "openai" -> OpenAIChat(messages, tools)
      [] providerName = "claude" -> ClaudeChat(messages, tools)
      [] providerName = "gemini" -> GeminiChat(messages, tools)
      [] OTHER -> NoRequest

IdleTurn ==
    [entry |-> "none", pc |-> "idle", mode |-> "none", messages |-> <<>>, tools |-> <<>>,
     iteration |-> 0, toolResults |-> <<>>, pending |-> <<>>, providerCalls |-> 0,
     executed |-> <<>>, toolRounds |-> 0, outcome |-> "none", error |-> "",
     result |-> NoTurnResult, input |-> <<>>, memoryResults |-> NoMemoryResults,
     request |-> NoRequest]

\* return of the loop's no-tool-call branch and of ask mode
Finished(t, response) ==
    [t EXCEPT !.pc = "done", !.outcome = "returned",
              !.result = Delivered(t.entry,
                                   [response |-> response.content,
                                    toolResults |-> IF t.tools = <<>> THEN <<>> ELSE t.toolResults,
                                    warning |-> "undefined", source |-> "none"])]

\* a return after the loop that hands back no tool result
IterationLimitNoResults(t) ==
    [t EXCEPT !.pc = "done", !.outcome = "returned",
              !.result = Delivered(t.entry,
                            [response |-> "Maximum iterations reached. Please refine your query.",
                             toolResults |-> <<>>,
                             warning |-> "max_iterations_reached", source |-> "none"])]

\* the return after the loop: the iteration cap was reached
IterationLimit(t) ==
    [t EXCEPT !.pc = "done", !.outcome = "returned",
              !.result = Delivered(t.entry,
                            [response |-> "Maximum iterations reached. Please refine your query.",
                             toolResults |-> t.toolResults,
                             warning |-> "max_iterations_reached", source |-> "none"])]

\* a loop that runs one round more than maxIterations
LoopHeadOffByOne(t) ==
    IF t.tools = <<>> \/ t.iteration <= maxIterations
    THEN [t EXCEPT !.pc = "awaitProvider", !.providerCalls = @ + 1,
                   !.request = chat(currentProvider, t.messages, t.tools)]
    ELSE IterationLimit(t)

\* the next chat() call: ask mode's single one, or the one
\* `while (iteration < maxIterations)` lets through
LoopHead(t) ==
    IF t.tools = <<>> \/ t.iteration < maxIterations
    THEN [t EXCEPT !.pc = "awaitProvider", !.providerCalls = @ + 1,
                   !.request = chat(currentProvider, t.messages, t.tools)]
    ELSE IterationLimit(t)

\* a rejected promise of the public entry point
Rejected(t, error) == [t EXCEPT !.pc = "done", !.outcome = "rejected", !.error = error]

\* no setProvider call was made yet
NoSetCall == [seq |-> 0, providerName |-> "none", apiKey |-> <<>>, threw |-> FALSE, error |-> ""]

NoCall == [op |-> "none", arg |-> "none", result |-> "none"]

InitMem ==
    /\ memory = EmptyMemory
    /\ loaded = FALSE
    /\ disk = [exists |-> FALSE, data |-> EmptyMemory]
    /\ now = 0
    /\ memCall = NoCall

\* ------------------------------------------------------------------------
\* Direct tool execution: ipcMain.handle('ai:execute-tool')
\* ------------------------------------------------------------------------
Call(id, name, arguments) ==
    [id |-> id, name |-> name, hasArgs |-> TRUE, arguments |-> arguments]

\* a call whose `arguments` is undefined
CallNoArgs(id, name) == [id |-> id, name |-> name, hasArgs |-> FALSE, arguments |-> <<>>]

SketchText == <<"s">>
BoardText == <<"u">>
PortText == <<"p">>

\* The calls the UI issues in this model: every tool, with arguments that are
\* complete, incomplete, blank or undefined, an unknown tool and a missing name
DirectCalls ==
    { Call("direct", "compile_sketch", <<>>),
      Call("direct", "compile_sketch", [sketchPath |-> <<" ", "t">>, boardFQBN |-> <<" ">>]),
      Call("direct", "upload_sketch", <<>>),
      Call("direct", "upload_sketch",
           [sketchPath |-> <<"t">>, boardFQBN |-> BoardText, port |-> <<"q", " ">>]),
      Call("direct", "list_boards", <<>>),
      CallNoArgs("direct", "list_ports"),
      Call("direct", "connect_serial", [port |-> PortText]),
      Call("direct", "connect_serial", [baudRate |-> 9600]),
      CallNoArgs("direct", "connect_serial"),
      Call("direct", "disconnect_serial", <<>>),
      Call("direct", "send_serial", [data |-> "x"]),
      Call("direct", "read_serial", [lines |-> 1]),
      CallNoArgs("direct", "read_serial"),
      Call("direct", "auto_detect_baud", [port |-> PortText]),
      Call("direct", "get_baud_rate", <<>>),
      Call("direct", "set_baud_rate", [baudRate |-> 9600]),
      Call("direct", "set_baud_rate", [baudRate |-> 1234]),
      Call("direct", "get_available_baud_rates", <<>>),
      Call("direct", "get_editor_code", <<>>),
      Call("direct", "set_editor_code", [code |-> "c"]),
      Call("direct", "edit_code", [operation |-> "replace", startLine |-> 1]),
      Call("direct", "edit_code", [operation |-> "delete"]),
      Call("direct", "search_code", [searchText |-> "x"]),
      Call("direct", "replace_in_code", [searchText |-> "x", replaceText |-> "y"]),
      Call("direct", "replace_in_code", [searchText |-> "x"]),
      Call("direct", "get_current_sketch_path", <<>>),
      Call("direct", "save_sketch", <<>>),
      Call("direct", "analyze_error", [errorMessage |-> <<"a", "b">>]),
      Call("direct", "search_memory", [query |-> <<"A", "b">>]),
      Call("direct", "record_fix",
           [errorSignature |-> generateSignature(<<"a", "b">>), fix |-> "press reset"]),
      Call("direct", "record_fix", [fix |-> "press reset"]),
      Call("direct", "get_current_state", <<>>),
      Call("direct", "format_disk", <<>>),
      Call("direct", "", <<>>) }

NoExec ==
    [seq |-> 0, toolCall |-> Call("none", "", <<>>), settled |-> "none",
     value |-> ToolResult(FALSE, "", "undefined", NoResult), invoked |-> <<>>,
     passed |-> NothingPassed]

\* What main.js keeps of the editor: nothing open, or a sketch with the board
\* and the port selected one after the other
UIStates ==
    { [currentSketchPath |-> <<>>, selectedBoard |-> <<>>, selectedPort |-> <<>>],
      [currentSketchPath |-> SketchText, selectedBoard |-> <<>>, selectedPort |-> <<>>],
      [currentSketchPath |-> SketchText, selectedBoard |-> BoardText, selectedPort |-> <<>>],
      [currentSketchPath |-> SketchText, selectedBoard |-> BoardText,
       selectedPort |-> PortText] }

InitExecutor ==
    /\ uiState \in UIStates
    /\ hasUICallbacks \in BOOLEAN
    /\ hasUICallbacks = FALSE => uiState.currentSketchPath = <<>>
    /\ isConnected = FALSE
    /\ currentBaudRate = 0
    /\ dataListeners = 0
    /\ serialBuffer = <<>>
    /\ execCall = NoExec

\* ------------------------------------------------------------------------
\* Calls in flight side by side
\* ------------------------------------------------------------------------
MaxStoreCallers == 2

StoreCallers == 1..MaxStoreCallers

\* a caller that has not called the store
IdleStoreCall ==
    [pc |-> "idle", op |-> "none", arg |-> <<>>, at |-> 0, writing |-> EmptyMemory]

NoStoreCalls == [p \in StoreCallers |-> IdleStoreCall]

\* no executeUpload call is in flight
NoUpload == [pc |-> "idle", seq |-> 0, connectedAtUpload |-> FALSE]

\* nobody outside an upload has asked for the transport
NoConnect == [pc |-> "idle", seq |-> 0, from |-> "none", baudRate |-> 0]

\* new AIAgent(): no provider, an empty history, maxIterations from the config
InitAgent ==
    /\ currentProvider = "none"
    /\ providerKey = <<>>
    /\ setCall = NoSetCall
    /\ maxIterations = DefaultMaxIterations
    /\ conversationHistory = <<>>
    /\ turn = IdleTurn
    /\ turns = 0
    /\ chatCalls = 0
    /\ inFlight = 0
    /\ turn2 = IdleTurn
    /\ storeCalls = NoStoreCalls
    /\ uploadCall = NoUpload
    /\ connectCall = NoConnect

\* await aiAgent.toolExecutor.execute(toolCall), as one step
execute(toolCall, env) ==
    LET out == Execute(toolCall, ExecState, env)
    IN  /\ SetExecState(out.st)
        /\ execCall' = [seq |-> execCall.seq + 1, toolCall |-> toolCall,
                        settled |-> out.settled, value |-> out.value,
                        invoked |-> out.invoked,
                        passed |-> PassedArgs(toolCall, out.invoked)]
        /\ UNCHANGED <<uiState, hasUICallbacks, serialBuffer>>

ExecuteTool ==
    /\ execCall.seq < MaxExecCalls
    /\ \E toolCall \in DirectCalls : \E env \in EnvsFor(toolCall) : execute(toolCall, env)
    /\ UNCHANGED <<memCall, agentVars>>

InitExec == InitMem /\ InitExecutor /\ InitAgent

NextExec == ExecuteTool

SpecExec == InitExec /\ [][NextExec]_vars

\* ------------------------------------------------------------------------
\* Serial data arriving at the executor's buffer
\* ------------------------------------------------------------------------
maxBufferSize == 1000

MaxDataEvents == 3

\* The object SerialMonitor emits for the n-th chunk read from the port
DataEvent(n, baudRate) == [timestamp |-> n, data |-> n, baudRate |-> baudRate]

\* addToBuffer(data): push the entry, shift the oldest out above maxBufferSize
addToBuffer(buffer, data) ==
    LET pushed == Append(buffer, [timestamp |-> data.timestamp, data |-> data.data,
                                  baudRate |-> data.baudRate])
    IN  IF Len(pushed) > maxBufferSize THEN Tail(pushed) ELSE pushed

\* emit('data', data): every listener executeConnectSerial registered runs
\* addToBuffer, in registration order
RECURSIVE Emit(_, _, _)
Emit(buffer, data, listeners) ==
    IF listeners = 0 THEN buffer
    ELSE Emit(addToBuffer(buffer, data), data, listeners - 1)

\* Chunks are numbered in arrival order; the buffer's last entry is the latest
NextArrival == IF serialBuffer = <<>> THEN 1 ELSE serialBuffer[Len(serialBuffer)].data + 1

\* port.on('data'): a chunk arrives on the open port
DataArrives ==
    /\ isConnected
    /\ dataListeners > 0
    /\ NextArrival <= MaxDataEvents
    /\ serialBuffer' = Emit(serialBuffer, DataEvent(NextArrival, currentBaudRate),
                            dataListeners)
    /\ UNCHANGED <<memVars, uiState, hasUICallbacks, isConnected, currentBaudRate,
                   dataListeners, execCall, agentVars>>

SerialTools == {"connect_serial", "disconnect_serial", "read_serial"}

\* read_serial with lines 0, with lines 2 and with the default
ReadCalls ==
    { Call("direct", "read_serial", [lines |-> 0]),
      Call("direct", "read_serial", [lines |-> 2]),
      Call("direct", "read_serial", <<>>) }

SerialCall ==
    /\ execCall.seq < MaxExecCalls
    /\ \E toolCall \in {c \in DirectCalls : c.name \in SerialTools} \cup ReadCalls :
         \E env \in EnvsFor(toolCall) : execute(toolCall, env)
    /\ UNCHANGED <<memCall, agentVars>>

\* A monitor session that has already buffered maxBufferSize - 1 chunks through
\* its one listener, numbered up to 0
LongSession ==
    [i \in 1 .. (maxBufferSize - 1) |->
        [timestamp |-> i - (maxBufferSize - 1), data |-> i - (maxBufferSize - 1),
         baudRate |-> DefaultBaudRate]]

InitSerial ==
    /\ InitMem /\ InitAgent
    /\ uiState \in UIStates
    /\ hasUICallbacks = TRUE
    /\ execCall = NoExec
    /\ \/ /\ isConnected = FALSE /\ currentBaudRate = 0 /\ dataListeners = 0
          /\ serialBuffer = <<>>
       \/ /\ isConnected = TRUE /\ currentBaudRate = DefaultBaudRate /\ dataListeners = 1
          /\ serialBuffer = LongSession

NextSerial == SerialCall \/ DataArrives

SpecSerial == InitSerial /\ [][NextSerial]_vars

\* ------------------------------------------------------------------------
\* Direct Memory Store calls
\* ------------------------------------------------------------------------
MemRecordError ==
    /\ now < MaxMemCalls
    /\ UNCHANGED <<execVars, agentVars>>
    /\ \E t \in ErrorTexts, writeOk \in BOOLEAN : recordError(t, writeOk)

MemRecordFix ==
    /\ now < MaxMemCalls
    /\ UNCHANGED <<execVars, agentVars>>
    /\ \E sig \in Signatures, f \in FixTexts, writeOk \in BOOLEAN : recordFix(sig, f, writeOk)

MemSearch ==
    /\ now < MaxMemCalls
    /\ UNCHANGED <<execVars, agentVars>>
    /\ \E q \in ErrorTexts : searchSimilarErrors(q, DefaultSearchLimit)

MemRecordExecution ==
    /\ now < MaxMemCalls
    /\ UNCHANGED <<execVars, agentVars>>
    /\ \E ok \in BOOLEAN, writeOk \in BOOLEAN :
         recordExecution("list_ports", "noargs", ok, IF ok THEN "undefined" ELSE "failed", writeOk)

MemGetStats ==
    /\ now < MaxMemCalls
    /\ UNCHANGED <<execVars, agentVars>>
    /\ getStats

NextMem ==
    \/ MemRecordError
    \/ MemRecordFix
    \/ MemSearch
    \/ MemRecordExecution
    \/ MemGetStats

\* The store in an application whose editor has nothing open
InitStore ==
    /\ InitMem
    /\ InitExecutor
    /\ InitAgent
    /\ hasUICallbacks
    /\ uiState.currentSketchPath = <<>>

SpecMem == InitStore /\ [][NextMem]_vars

\* ------------------------------------------------------------------------
\* The execution log over a long run
\* ------------------------------------------------------------------------
\* The log an earlier run saved: MaxExecutions - 1 executions, numbered up to 0
EarlierLog ==
    [i \in 1 .. (MaxExecutions - 1) |->
        [tool |-> "list_ports", args |-> "noargs", success |-> (i % 3 # 0),
         error |-> IF i % 3 # 0 THEN "undefined" ELSE "failed",
         timestamp |-> i - MaxExecutions]]

\* Start-up with no store file, or with the file of the earlier run
InitLog ==
    /\ InitExecutor
    /\ InitAgent
    /\ hasUICallbacks
    /\ uiState.currentSketchPath = <<>>
    /\ memory = EmptyMemory
    /\ loaded = FALSE
    /\ now = 0
    /\ memCall = NoCall
    /\ disk \in { [exists |-> FALSE, data |-> EmptyMemory],
                  [exists |-> TRUE, data |-> [EmptyMemory EXCEPT !.executions = EarlierLog]] }

NextLog == MemRecordExecution \/ MemGetStats

SpecLog == InitLog /\ [][NextLog]_vars

\* ------------------------------------------------------------------------
\* Memory Store calls made side by side, from before the first load on
\* ------------------------------------------------------------------------
StoreOps ==
    { [op |-> "recordError", arg |-> <<"a", "b">>],
      [op |-> "recordError", arg |-> <<"b">>],
      [op |-> "recordExecution", arg |-> "list_ports"],
      [op |-> "getStats", arg |-> "none"] }

\* the part of a call between ensureLoaded() and save(), run without an await
Applied(m, c, t) ==
    IF c.op = "recordError" THEN RecordErrorIn(m, c.arg, t)
    ELSE IF c.op = "recordExecution"
    THEN RecordExecutionIn(m, c.arg, "noargs", TRUE, "undefined", t)
    ELSE m

\* the call after that part: suspended in save() with the text
\* JSON.stringify(this.memory) it handed to writeFile, or resolved (getStats)
AfterApplied(c, m, t) ==
    IF c.op = "getStats" THEN [c EXCEPT !.pc = "done", !.at = t]
    ELSE [c EXCEPT !.pc = "saving", !.at = t, !.writing = m]

\* a caller calls the store. ensureLoaded(): with `loaded` set the call runs up
\* to its save(), otherwise it awaits a load() of its own
StoreCallStarts ==
    \E p \in StoreCallers, o \in StoreOps :
        /\ storeCalls[p].pc = "idle"
        /\ LET c == [IdleStoreCall EXCEPT !.op = o.op, !.arg = o.arg]
           IN  IF loaded
               THEN /\ memory' = Applied(memory, c, now)
                    /\ storeCalls' = [storeCalls EXCEPT ![p] = AfterApplied(c, memory', now)]
               ELSE /\ memory' = memory
                    /\ storeCalls' =
                         [storeCalls EXCEPT ![p] =
                            [c EXCEPT !.pc = "loading"]]
        /\ now' = now + 1
        /\ UNCHANGED <<loaded, disk, memCall, execVars, providerVars, maxIterations, inFlight,
                       turn2, uploadCall, connectCall, conversationHistory, turn, turns,
                       chatCalls>>

\* readFile of a load() resolves: this.memory is assigned the parsed file (the
\* defaults without one), loaded is set, and the call goes on up to its save()
LoadCompletes ==
    \E p \in StoreCallers :
        /\ storeCalls[p].pc = "loading"
        /\ memory' = Applied(LoadedMemory(memory, FALSE, disk), storeCalls[p], now)
        /\ loaded' = TRUE
        /\ storeCalls' = [storeCalls EXCEPT ![p] = AfterApplied(storeCalls[p], memory', now)]
        /\ now' = now + 1
        /\ UNCHANGED <<disk, memCall, execVars, providerVars, maxIterations, inFlight, turn2,
                       uploadCall, connectCall, conversationHistory, turn, turns, chatCalls>>

\* writeFile of a save() settles and the call resolves
SaveCompletes ==
    \E p \in StoreCallers, writeOk \in BOOLEAN :
        /\ storeCalls[p].pc = "saving"
        /\ disk' = SavedDisk(storeCalls[p].writing, disk, writeOk)
        /\ storeCalls' = [storeCalls EXCEPT ![p].pc = "done"]
        /\ UNCHANGED <<memory, loaded, now, memCall, execVars, providerVars, maxIterations,
                       inFlight, turn2, uploadCall, connectCall, conversationHistory,
                       turn, turns, chatCalls>>

NextLoad == StoreCallStarts \/ LoadCompletes \/ SaveCompletes

SpecLoad == InitStore /\ [][NextLoad]_vars

\* ------------------------------------------------------------------------
\* An upload beside a serial connect made from elsewhere
\* ------------------------------------------------------------------------
MaxUploads == 1

MaxConnects == 2

UploadCalls == {c \in DirectCalls : c.name = "upload_sketch"}

ConnectBaudRates == {9600, DefaultBaudRate}

\* what neither executeUpload nor SerialMonitor.connect touches
apartFromTransport ==
    <<memVars, uiState, hasUICallbacks, serialBuffer, execCall, providerVars, maxIterations,
      inFlight, turn2, storeCalls, conversationHistory, turn, turns, chatCalls>>

\* const uploadResult = await this.arduinoService.upload(sketchPath, boardFQBN, port):
\* the uploader is invoked, with the transport as it is at that moment
UploadInvoked(c, connectedNow) ==
    [c EXCEPT !.pc = "uploading", !.connectedAtUpload = connectedNow]

\* await this.uiCallbacks.saveSketch(sketchPath), then the uploader. saveSketch
\* awaits fs.writeFile when the editor holds code; without the callbacks, or
\* with an empty editor, nothing is written and the uploader is invoked in the same task
SaveThenUpload(c, connectedNow) ==
    \E editorHasCode \in BOOLEAN :
        uploadCall' = IF hasUICallbacks /\ editorHasCode
                      THEN [c EXCEPT !.pc = "saving"]
                      ELSE UploadInvoked(c, connectedNow)

\* executeUpload(args) is called: the values are resolved, a missing one returns
\* at once, and an open transport is closed before anything else
UploadStarts ==
    /\ uploadCall.pc \in {"idle", "done"}
    /\ uploadCall.seq < MaxUploads
    /\ \E toolCall \in UploadCalls :
        LET sketchPath == Resolved(toolCall, "sketchPath", uiState.currentSketchPath)
            boardFQBN == Resolved(toolCall, "boardFQBN", uiState.selectedBoard)
            port == Resolved(toolCall, "port", uiState.selectedPort)
            c == [pc |-> "idle", seq |-> uploadCall.seq + 1, connectedAtUpload |-> FALSE]
        IN  IF sketchPath = <<>> \/ boardFQBN = <<>> \/ port = <<>>
            THEN uploadCall' = [c EXCEPT !.pc = "done"]
            ELSE IF isConnected
            THEN uploadCall' = [c EXCEPT !.pc = "disconnecting"]
            ELSE SaveThenUpload(c, isConnected)
    /\ UNCHANGED <<apartFromTransport, isConnected, currentBaudRate, dataListeners,
                   connectCall>>

\* the close callback of the upload's disconnect(): isConnected = false, and
\* executeUpload goes on to the save
UploadDisconnected ==
    /\ uploadCall.pc = "disconnecting"
    /\ isConnected' = FALSE
    /\ SaveThenUpload(uploadCall, isConnected')
    /\ UNCHANGED <<apartFromTransport, currentBaudRate, dataListeners, connectCall>>

\* fs.writeFile of saveSketch settles: executeUpload invokes the uploader, or
\* rejects with the write's error
UploadSaved ==
    /\ uploadCall.pc = "saving"
    /\ \E writeOk \in BOOLEAN :
        uploadCall' = IF writeOk THEN UploadInvoked(uploadCall, isConnected)
                      ELSE [uploadCall EXCEPT !.pc = "done"]
    /\ UNCHANGED <<apartFromTransport, isConnected, currentBaudRate, dataListeners,
                   connectCall>>

\* arduinoService.upload resolves or rejects; executeUpload returns either way
UploadSettles ==
    /\ uploadCall.pc = "uploading"
    /\ uploadCall' = [uploadCall EXCEPT !.pc = "done"]
    /\ UNCHANGED <<apartFromTransport, isConnected, currentBaudRate, dataListeners,
                   connectCall>>

\* serialMonitor.connect(port, baudRate) from ipcMain.handle('serial:connect')
\* or from executeConnectSerial of another call: an open transport is closed
\* first, otherwise the port is opened
ConnectStarts ==
    /\ connectCall.pc \in {"idle", "done"}
    /\ connectCall.seq < MaxConnects
    /\ \E from \in {"ui", "tool"}, baudRate \in ConnectBaudRates :
        connectCall' = [pc |-> IF isConnected THEN "closing" ELSE "opening",
                        seq |-> connectCall.seq + 1, from |-> from, baudRate |-> baudRate]
    /\ UNCHANGED <<apartFromTransport, isConnected, currentBaudRate, dataListeners,
                   uploadCall>>

\* the close callback of connect's disconnect(); connect goes on to open the port
ConnectClosed ==
    /\ connectCall.pc = "closing"
    /\ isConnected' = FALSE
    /\ connectCall' = [connectCall EXCEPT !.pc = "opening"]
    /\ UNCHANGED <<apartFromTransport, currentBaudRate, dataListeners, uploadCall>>

\* port.open calls back. Opened: isConnected = true, currentBaudRate = baudRate,
\* and executeConnectSerial registers one more 'data' listener (the UI's handler
\* keeps the rate in uiState.currentBaudRate, which nothing here reads).
\* Refused: connect throws and the transport stays as it is
ConnectOpened ==
    /\ connectCall.pc = "opening"
    /\ connectCall' = [connectCall EXCEPT !.pc = "done"]
    /\ \E opened \in BOOLEAN :
        IF opened
        THEN /\ isConnected' = TRUE
             /\ currentBaudRate' = connectCall.baudRate
             /\ dataListeners' = IF connectCall.from = "tool" THEN dataListeners + 1
                                 ELSE dataListeners
        ELSE UNCHANGED <<isConnected, currentBaudRate, dataListeners>>
    /\ UNCHANGED <<apartFromTransport, uploadCall>>

\* The executor of the running application, the monitor closed or open
InitUpload ==
    /\ InitMem /\ InitAgent
    /\ uiState \in UIStates
    /\ hasUICallbacks \in BOOLEAN
    /\ hasUICallbacks = FALSE => uiState.currentSketchPath = <<>>
    /\ execCall = NoExec
    /\ serialBuffer = <<>>
    /\ \/ isConnected = FALSE /\ currentBaudRate = 0 /\ dataListeners = 0
       \/ isConnected = TRUE /\ currentBaudRate = DefaultBaudRate /\ dataListeners = 1

NextUpload ==
    \/ UploadStarts
    \/ UploadDisconnected
    \/ UploadSaved
    \/ UploadSettles
    \/ ConnectStarts
    \/ ConnectClosed
    \/ ConnectOpened

SpecUpload == InitUpload /\ [][NextUpload]_vars

\* ------------------------------------------------------------------------
\* The agent's public calls: 'ai:process-query', 'ai:analyze-error',
\* 'ai:analyze-serial', 'ai:set-provider', clearHistory
\* ------------------------------------------------------------------------
Modes == {"agent", "ask", "debug"}

Queries == {"why does it fail"}

\* The tool calls the provider proposes in this model: one whose handler
\* reports a failure or succeeds, one that writes the store, one unknown tool
CallA == Call("call_A", "upload_sketch", <<>>)
CallB == Call("call_B", "record_fix",
              [errorSignature |-> generateSignature(<<"a", "b">>), fix |-> "press reset"])
CallC == Call("call_C", "format_disk", <<>>)

ToolCallLists == {<<CallA, CallB, CallC>>, <<CallC, CallA>>}

\* What chat() resolves with: { content, toolCalls }
Responses ==
    {[content |-> c, toolCalls |-> <<>>] : c \in {"", "answer"}}
    \cup {[content |-> "", toolCalls |-> l] : l \in ToolCallLists}
    \cup {[content |-> "answer", toolCalls |-> <<CallB>>]}

\* enrichedContext of 'ai:process-query'; the renderer reports hasFileOpen
EnrichedContext ==
    [hasFileOpen |-> uiState.currentSketchPath # <<>>,
     currentSketchPath |-> uiState.currentSketchPath,
     selectedBoard |-> uiState.selectedBoard,
     selectedPort |-> uiState.selectedPort]

\* a context without IDE fields: analyzeError's default, analyzeSerialOutput's
\* { type: 'serial_analysis' }
BareContext ==
    [hasFileOpen |-> FALSE, currentSketchPath |-> <<>>, selectedBoard |-> <<>>,
     selectedPort |-> <<>>]

\* processQuery up to its first chat() call: the provider check, the user
\* message, the message list
\* a processQuery that refuses to start while another call's turn is in flight
BeginLocked(entry, userQuery, context, m) ==
    LET history == Append(conversationHistory, UserMessage(userQuery, context))
        t == [IdleTurn EXCEPT !.entry = entry, !.mode = m, !.tools = getToolsForMode(m),
                              !.messages = <<SystemMessage(m)>> \o history]
    IN  IF currentProvider = "none"
        THEN [turn |-> Rejected([IdleTurn EXCEPT !.entry = entry, !.mode = m],
                                "No provider selected. Please set a provider first."),
              history |-> conversationHistory]
        ELSE IF turn.pc \notin {"idle", "done"}
        THEN [turn |-> Rejected([IdleTurn EXCEPT !.entry = entry, !.mode = m],
                                "A query is already in progress."),
              history |-> conversationHistory]
        ELSE [turn |-> [t EXCEPT !.pc = "chat"], history |-> history]

\* a processQuery that starts its turn from a history of the new message alone
BeginAfresh(entry, userQuery, context, m) ==
    LET history == <<UserMessage(userQuery, context)>>
        t == [IdleTurn EXCEPT !.entry = entry, !.mode = m, !.tools = getToolsForMode(m),
                              !.messages = <<SystemMessage(m)>> \o history]
    IN  IF currentProvider = "none"
        THEN [turn |-> Rejected([IdleTurn EXCEPT !.entry = entry, !.mode = m],
                                "No provider selected. Please set a provider first."),
              history |-> conversationHistory]
        ELSE [turn |-> [t EXCEPT !.pc = "chat"], history |-> history]

Begin(entry, userQuery, context, m) ==
    LET history == Append(conversationHistory, UserMessage(userQuery, context))
        t == [IdleTurn EXCEPT !.entry = entry, !.mode = m, !.tools = getToolsForMode(m),
                              !.messages = <<SystemMessage(m)>> \o history]
    IN  IF currentProvider = "none"
        THEN [turn |-> Rejected([IdleTurn EXCEPT !.entry = entry, !.mode = m],
                                "No provider selected. Please set a provider first."),
              history |-> conversationHistory]
        ELSE [turn |-> [t EXCEPT !.pc = "chat"], history |-> history]

Idle == turn.pc \in {"idle", "done"}

\* async processQuery(userQuery, context, mode)
processQuery(userQuery, context, m) ==
    LET b == Begin("processQuery", userQuery, context, m)
    IN  /\ turn' = b.turn
        /\ conversationHistory' = b.history
        /\ turns' = turns + 1
        /\ UNCHANGED <<memVars, execVars, providerVars, maxIterations, raceVars, chatCalls>>

ProcessQuery ==
    /\ Idle
    /\ turns < MaxTurns
    /\ \E q \in Queries, m \in Modes : processQuery(q, EnrichedContext, m)

\* the loop's test and the chat() call it lets through, or the return after
\* the loop
CallProvider ==
    /\ turn.pc = "chat"
    /\ LoopHead(turn).pc = "awaitProvider" => chatCalls < MaxChatCalls
    /\ turn' = LoopHead(turn)
    /\ chatCalls' = IF LoopHead(turn).pc = "awaitProvider" THEN chatCalls + 1 ELSE chatCalls
    /\ UNCHANGED <<memVars, execVars, providerVars, maxIterations, raceVars, conversationHistory,
                   turns>>

\* chat() resolved: the ask-mode return, the final answer, or a round of tools
ProviderResponds ==
    /\ turn.pc = "awaitProvider"
    /\ \E response \in Responses :
         IF turn.tools = <<>> \/ response.toolCalls = <<>>
         THEN /\ turn' = Finished([turn EXCEPT !.toolRounds =
                                         IF response.toolCalls # <<>> THEN @ + 1 ELSE @],
                                    response)
              /\ conversationHistory' =
                   IF response.content # ""
                   THEN Append(conversationHistory, AssistantText(response.content))
                   ELSE conversationHistory
         ELSE /\ turn' = [turn EXCEPT !.pc = "executeTools", !.toolRounds = @ + 1,
                                      !.messages = Append(@, AssistantToolCalls(response)),
                                      !.pending = response.toolCalls]
              /\ UNCHANGED conversationHistory
    /\ UNCHANGED <<memVars, execVars, providerVars, maxIterations, raceVars, turns, chatCalls>>

\* chat() rejected: nothing in processQuery catches it
ProviderFails ==
    /\ turn.pc = "awaitProvider"
    /\ turn' = Rejected(turn, "provider request failed")
    /\ UNCHANGED <<memVars, execVars, providerVars, maxIterations, raceVars, conversationHistory,
                   turns, chatCalls>>

\* result.executionTime = executionTime
WithExecutionTime(result) ==
    [success |-> result.success, tool |-> result.tool, error |-> result.error,
     result |-> result.result, executionTime |-> "elapsed"]

\* one pass of `for (const toolCall of response.toolCalls)`, and after the
\* last one `iteration++`
AfterTool(t, toolCall, settled, value) ==
    LET result == WithExecutionTime(value)
        t1 == [t EXCEPT !.toolResults = Append(@, result),
                        !.messages = Append(@, ToolMessage(toolCall, result)),
                        !.executed = Append(@, toolCall.id),
                        !.pending = Tail(@)]
    IN  IF settled = "rejected" THEN Rejected(t, value.error)
        ELSE IF t1.pending # <<>> THEN t1
        ELSE [t1 EXCEPT !.iteration = @ + 1, !.pc = "chat"]

\* The collaborators during a turn: the editor saves, the CLI and the device
\* answer, the store's file is writable
AgentEnvsFor(toolCall) ==
    {env \in EnvsFor(toolCall) : env.writeOk /\ ~env.saveThrows /\ ~env.ioThrows}

ExecuteToolCall ==
    /\ turn.pc = "executeTools"
    /\ \E env \in AgentEnvsFor(Head(turn.pending)) :
         /\ execute(Head(turn.pending), env)
         /\ turn' = AfterTool(turn, Head(turn.pending), execCall'.settled, execCall'.value)
    /\ UNCHANGED <<memCall, providerVars, maxIterations, raceVars, conversationHistory, turns, chatCalls>>

AnalyzeTexts == {<<"a", "b">>, <<"A", " ", "b">>, <<"b">>, <<"z">>}

AnalyzeErrorLimit == 5

\* an analyzeError that never answers from the store
MemoryAnswersNever(memoryResults) == FALSE

\* if (memoryResults.match && memoryResults.fixes.length > 0)
MemoryAnswers(memoryResults) == memoryResults.kind = "exact" /\ memoryResults.fixes # <<>>

\* if (memoryResults.matches && memoryResults.matches.length > 0)
HasSimilar(memoryResults) == memoryResults.kind = "similar" /\ memoryResults.matches # <<>>

\* async analyzeError(errorMessage, context = {})
analyzeError(errorMessage) ==
    LET memoryResults == SearchIn(StoreLoaded(Store).memory, errorMessage, AnalyzeErrorLimit)
        started == [IdleTurn EXCEPT !.entry = "analyzeError", !.input = errorMessage,
                                    !.memoryResults = memoryResults]
        t == [started EXCEPT !.pc = "done", !.outcome = "returned"]
        b == Begin("analyzeError", <<"Analyze this Arduino error", errorMessage>>,
                   BareContext, "agent")
    IN  /\ SetStore(StoreLoaded(Store))
        /\ turns' = turns + 1
        /\ IF MemoryAnswers(memoryResults)
           THEN /\ turn' = [t EXCEPT !.result.source = "memory",
                                     !.result.match = memoryResults.match,
                                     !.result.fixes = memoryResults.fixes,
                                     !.result.confidence = ExactConfidence]
                /\ UNCHANGED conversationHistory
           ELSE IF currentProvider = "none"
           THEN /\ turn' = [t EXCEPT !.result.source = "memory",
                     !.result.response =
                        "No AI provider configured. Showing memory results only."]
                /\ UNCHANGED conversationHistory
           ELSE IF HasSimilar(memoryResults)
           THEN /\ turn' = Rejected(started, "Assignment to constant variable.")
                /\ UNCHANGED conversationHistory
           ELSE /\ turn' = [b.turn EXCEPT !.input = errorMessage,
                                          !.memoryResults = memoryResults]
                /\ conversationHistory' = b.history
        /\ UNCHANGED <<memCall, uiState, hasUICallbacks, isConnected, currentBaudRate,
                       dataListeners, serialBuffer, execCall, providerVars, maxIterations, raceVars, chatCalls>>

AnalyzeError ==
    /\ Idle
    /\ turns < MaxTurns
    /\ \E e \in AnalyzeTexts : analyzeError(e)

\* Serial monitor text: one the store knows, with a fix
SerialOutputs == {<<"a", "b">>}

\* async analyzeSerialOutput(serialOutput, lines = 50)
analyzeSerialOutput(serialOutput) ==
    LET b == Begin("analyzeSerialOutput", <<"Analyze this serial monitor output", serialOutput>>,
                   BareContext, "agent")
    IN  /\ turns' = turns + 1
        /\ IF currentProvider = "none"
           THEN /\ turn' = [IdleTurn EXCEPT !.entry = "analyzeSerialOutput", !.pc = "done",
                     !.input = serialOutput,
                     !.outcome = "returned", !.result.source = "local",
                     !.result.response =
                        "No AI provider configured. Serial output logged but not analyzed."]
                /\ UNCHANGED conversationHistory
           ELSE /\ turn' = [b.turn EXCEPT !.input = serialOutput]
                /\ conversationHistory' = b.history
        /\ UNCHANGED <<memVars, execVars, providerVars, maxIterations, raceVars, chatCalls>>

AnalyzeSerialOutput ==
    /\ Idle
    /\ turns < MaxTurns
    /\ \E o \in SerialOutputs : analyzeSerialOutput(o)

ProviderNames == {"openai", "gemini", "claude"}

OpenAIKeyPrefix == <<"s", "k", "-">>

ClaudeKeyPrefix == <<"s", "k", "-", "a", "n", "t", "-">>

GeminiMinKeyLength == 30

\* String.prototype.startsWith
startsWith(s, prefix) == Len(s) >= Len(prefix) /\ SubSeq(s, 1, Len(prefix)) = prefix

\* a key of `length` characters that begins with `prefix`
KeyOf(prefix, length) == prefix \o [i \in 1..(length - Len(prefix)) |-> "x"]

OpenAIKey == KeyOf(OpenAIKeyPrefix, 8)

ApiKeys ==
    { <<>>,
      KeyOf(<<"s", "k">>, 2),
      OpenAIKey,
      KeyOf(ClaudeKeyPrefix, 12),
      KeyOf(<<"A", "I", "z", "a">>, GeminiMinKeyLength - 1),
      KeyOf(<<"A", "I", "z", "a">>, GeminiMinKeyLength),
      KeyOf(ClaudeKeyPrefix, GeminiMinKeyLength) }

\* a validateApiKey that every provider inherits from BaseProvider unchanged
validateApiKeyBaseOnly(providerName, apiKey) == Len(apiKey) > 0

\* validateApiKey(apiKey) of the provider class registered as `providerName`:
\* BaseProvider's check and the class's own
validateApiKey(providerName, apiKey) ==
    /\ Len(apiKey) > 0
    /\ CASE providerName = "openai" -> startsWith(apiKey, OpenAIKeyPrefix)
         [] providerName = "claude" -> startsWith(apiKey, ClaudeKeyPrefix)
         [] providerName = "gemini" -> Len(apiKey) >= GeminiMinKeyLength
         [] OTHER -> FALSE

\* setProvider(providerName, apiKey, model): throws, leaving the provider as it
\* was, for an unregistered name or a key the provider class does not accept
setProvider(providerName, apiKey) ==
    LET registered == providerName \in ProviderNames
        accepted == registered /\ validateApiKey(providerName, apiKey)
    IN  /\ currentProvider' = IF accepted THEN providerName ELSE currentProvider
        /\ providerKey' = IF accepted THEN apiKey ELSE providerKey
        /\ setCall' = [seq |-> setCall.seq + 1, providerName |-> providerName,
                       apiKey |-> apiKey, threw |-> ~accepted,
                       error |-> IF ~registered
                                 THEN "Provider " \o providerName \o " not registered"
                                 ELSE IF ~accepted
                                 THEN "Invalid API key for provider " \o providerName
                                 ELSE ""]
        /\ UNCHANGED <<memVars, execVars, maxIterations, raceVars, conversationHistory, turn, turns,
                       chatCalls>>

SetProvider ==
    /\ Idle
    /\ \E providerName \in {"openai", "llama"}, apiKey \in {OpenAIKey, <<>>} :
         /\ setProvider(providerName, apiKey)
         /\ currentProvider' # currentProvider

\* clearHistory()
clearHistory ==
    /\ conversationHistory' = <<>>
    /\ turns' = turns + 1
    /\ UNCHANGED <<memVars, execVars, providerVars, maxIterations, raceVars, turn, chatCalls>>

ClearHistory ==
    /\ Idle
    /\ turns < MaxTurns
    /\ conversationHistory # <<>>
    /\ clearHistory

\* A store file left by an earlier run: an error with a fix, one without
SeededMemory ==
    RecordFixIn(RecordErrorIn(RecordErrorIn(EmptyMemory, <<"a", "b">>, 0), <<"A", " ", "b">>, 0),
                generateSignature(<<"a", "b">>), "lower the upload speed", 0)

\* The application after start-up: the callbacks registered, no provider
\* chosen yet, the config's maxIterations
Init ==
    /\ memory = EmptyMemory
    /\ loaded = FALSE
    /\ disk = [exists |-> TRUE, data |-> SeededMemory]
    /\ now = 0
    /\ memCall = NoCall
    /\ InitExecutor
    /\ hasUICallbacks
    /\ uiState.currentSketchPath = <<>> \/ uiState.selectedPort # <<>>
    /\ currentProvider = "none"
    /\ providerKey = <<>>
    /\ setCall = NoSetCall
    /\ maxIterations \in {ConfigMaxIterations(given) : given \in 1..MaxConfigIterations}
    /\ conversationHistory = <<>>
    /\ turn = IdleTurn
    /\ turns = 0
    /\ chatCalls = 0
    /\ inFlight = 0
    /\ turn2 = IdleTurn
    /\ storeCalls = NoStoreCalls
    /\ uploadCall = NoUpload
    /\ connectCall = NoConnect

Next ==
    \/ ProcessQuery
    \/ CallProvider
    \/ ProviderResponds
    \/ ProviderFails
    \/ ExecuteToolCall
    \/ AnalyzeError
    \/ AnalyzeSerialOutput
    \/ SetProvider
    \/ ClearHistory

Spec == Init /\ [][Next]_vars

\* ------------------------------------------------------------------------
\* Provider selection: 'ai:set-provider' with any name and any key
\* ------------------------------------------------------------------------
SetAnyProvider ==
    /\ setCall.seq < MaxSetCalls
    /\ \E providerName \in ProviderNames \cup {"llama"}, apiKey \in ApiKeys :
         setProvider(providerName, apiKey)

NextProvider == SetAnyProvider

SpecProvider == Init /\ [][NextProvider]_vars

\* ------------------------------------------------------------------------
\* Turns with each of the registered providers
\* ------------------------------------------------------------------------
\* 'ai:set-provider' with a key every provider class accepts
SelectProvider ==
    /\ Idle
    /\ currentProvider = "none"
    /\ \E providerName \in ProviderNames :
         setProvider(providerName, KeyOf(ClaudeKeyPrefix, GeminiMinKeyLength))

NextChat ==
    \/ SelectProvider
    \/ ProcessQuery
    \/ CallProvider
    \/ ProviderResponds
    \/ ExecuteToolCall

SpecChat == Init /\ [][NextChat]_vars

\* ------------------------------------------------------------------------
\* The awaits of a turn, and 'ai:process-query' arriving while a turn is
\* suspended on one of them
\* ------------------------------------------------------------------------
\* a loop that starts a call and goes on without awaiting it
StartedNoAwait(t) == t

\* await this.toolExecutor.execute(toolCall): the turn is suspended on the call
Started(t) == [t EXCEPT !.pc = "awaitTool"]

\* the loop reaches execute() for the next call of the round
StartToolCall ==
    /\ turn.pc = "executeTools"
    /\ inFlight < Len(turn.pending)
    /\ turn' = Started(turn)
    /\ inFlight' = inFlight + 1
    /\ UNCHANGED <<memVars, execVars, providerVars, maxIterations, asyncVars, turn2, conversationHistory,
                   turns, chatCalls>>

\* execute() settles and the loop goes on after the await
ToolCallSettles ==
    /\ turn.pc = "awaitTool"
    /\ \E env \in AgentEnvsFor(Head(turn.pending)) :
         /\ execute(Head(turn.pending), env)
         /\ turn' = AfterTool([turn EXCEPT !.pc = "executeTools"], Head(turn.pending),
                              execCall'.settled, execCall'.value)
    /\ inFlight' = inFlight - 1
    /\ UNCHANGED <<memCall, providerVars, maxIterations, asyncVars, turn2, conversationHistory, turns,
                   chatCalls>>

\* The first call is suspended on the provider or on a tool
Suspended == turn.pc \in {"awaitProvider", "awaitTool"}

SecondQueries == {"and the port"}

\* a second processQuery(userQuery, context, 'ask') while the first is
\* suspended: it runs up to its own await of chat()
SecondProcessQuery ==
    /\ Suspended
    /\ turn2.pc = "idle"
    /\ turns < MaxTurns
    /\ chatCalls < MaxChatCalls
    /\ \E q \in SecondQueries :
         LET b == Begin("processQuery", q, EnrichedContext, "ask")
         IN  /\ turn2' = IF b.turn.pc = "chat" THEN LoopHead(b.turn) ELSE b.turn
             /\ conversationHistory' = b.history
    /\ turns' = turns + 1
    /\ chatCalls' = chatCalls + 1
    /\ UNCHANGED <<memVars, execVars, providerVars, maxIterations, asyncVars, inFlight, turn>>

\* chat() of the second call resolved: the ask-mode return
SecondProviderResponds ==
    /\ turn2.pc = "awaitProvider"
    /\ \E response \in Responses :
         /\ turn2' = Finished(turn2, response)
         /\ conversationHistory' =
              IF response.content # ""
              THEN Append(conversationHistory, AssistantText(response.content))
              ELSE conversationHistory
    /\ UNCHANGED <<memVars, execVars, providerVars, maxIterations, asyncVars, inFlight, turn, turns,
                   chatCalls>>

NextRace ==
    \/ SetProvider
    \/ ProcessQuery
    \/ CallProvider
    \/ ProviderResponds
    \/ StartToolCall
    \/ ToolCallSettles
    \/ SecondProcessQuery
    \/ SecondProviderResponds

SpecRace == Init /\ [][NextRace]_vars


\* ------------------------------------------------------------------------
\* Properties of the Memory Store (SpecMem)
\* ------------------------------------------------------------------------
Range(s) == {s[i] : i \in 1..Len(s)}

IsRecordErrorStep == memCall'.op = "recordError" /\ now' = now + 1

\* C5: two successive recordError calls whose texts normalize to the same text
\* return the same signature hash, and the second one increments the existing
\* signature's count and sets its lastSeen, adding no entry.
C5_SignatureIdempotence ==
    [][(/\ memCall.op = "recordError"
        /\ IsRecordErrorStep
        /\ Normalize(memCall'.arg) = Normalize(memCall.arg))
       => /\ memCall'.result = memCall.result
          /\ Len(memory'.errors) = Len(memory.errors)
          /\ \E k \in 1..Len(memory.errors) :
                /\ memory.errors[k].signature = memCall.result
                /\ memory'.errors = [memory.errors EXCEPT ![k].count = @ + 1,
                                                          ![k].lastSeen = now]]_vars

\* C5 witness: a second recordError, of another raw text with the same normalized
\* text, has left one signature with count 2.
C5_Witness ==
    /\ memCall.op = "recordError"
    /\ Len(memory.errors) = 1
    /\ memory.errors[1].signature = memCall.result
    /\ memory.errors[1].count = 2
    /\ memory.errors[1].message # memCall.arg

\* C6: a search for a text whose signature is stored returns the exact match
\* with confidence 1.0 and, as fixes, exactly the fixes recorded against that
\* signature (none when none was recorded).
C6_ExactMatchReturnsFixes ==
    memCall.op = "searchSimilarErrors" =>
        LET sig == generateSignature(memCall.arg)
            r == memCall.result
        IN  (\E k \in 1..Len(memory.errors) : memory.errors[k].signature = sig) =>
                /\ r.kind = "exact"
                /\ r.confidence = ExactConfidence
                /\ r.match.signature = sig
                /\ r.match \in Range(memory.errors)
                /\ Range(r.fixes) = {f \in Range(memory.fixes) : f.errorSignature = sig}
                /\ Len(r.fixes) = Cardinality({i \in 1..Len(memory.fixes) :
                                                  memory.fixes[i].errorSignature = sig})

\* C6 witness: an exact match found through a different raw text, with a fix.
C6_Witness ==
    /\ memCall.op = "searchSimilarErrors"
    /\ memCall.result.kind = "exact"
    /\ memCall.result.match.message # memCall.arg
    /\ Len(memCall.result.fixes) = 1
    /\ memCall.result.fixes[1].description = "lower the upload speed"

\* C6 witness of the case without a fix is the same search before recordFix.
C6_WitnessNoFix ==
    /\ memCall.op = "searchSimilarErrors"
    /\ memCall.result.kind = "exact"
    /\ memCall.result.fixes = <<>>

\* ------------------------------------------------------------------------
\* Properties of the Tool Executor (SpecExec)
\* ------------------------------------------------------------------------
IsExecuteStep == execCall'.seq = execCall.seq + 1

\* C3: an execute() call always resolves with a ToolResult and never rejects,
\* whatever the tool name, whatever the arguments (absent ones included) and
\* whatever a collaborator throws.
C3_ExecuteNeverRejects == execCall.seq > 0 => execCall.settled = "resolved"

\* a call the validation gate must stop: its name is not in TOOL_SCHEMA, or
\* its arguments lack a key the tool's schema requires
C4_Gated(toolCall) ==
    \/ \A i \in 1..Len(TOOL_SCHEMA) : TOOL_SCHEMA[i].name # toolCall.name
    \/ /\ toolCall.hasArgs
       /\ \E i \in 1..Len(TOOL_SCHEMA) :
            /\ TOOL_SCHEMA[i].name = toolCall.name
            /\ \E j \in 1..Len(TOOL_SCHEMA[i].required) :
                 TOOL_SCHEMA[i].required[j] \notin DOMAIN toolCall.arguments

\* C4: an execute() call that names no tool of TOOL_SCHEMA, or whose arguments
\* lack a required key, resolves with success false, invokes no collaborator
\* and leaves the store and the serial transport as they were.
C4_ValidationGate ==
    [][(IsExecuteStep /\ C4_Gated(execCall'.toolCall))
         => /\ execCall'.settled = "resolved"
            /\ execCall'.value.success = FALSE
            /\ execCall'.value.error # "undefined"
            /\ execCall'.invoked = <<>>
            /\ UNCHANGED <<memory, loaded, disk, now, isConnected, currentBaudRate,
                           dataListeners, serialBuffer>>]_vars

\* replace_in_code without replaceText was refused twice and the store never written
C4_Witness ==
    /\ execCall.seq = 2
    /\ execCall.toolCall.name = "replace_in_code"
    /\ "replaceText" \notin DOMAIN execCall.toolCall.arguments
    /\ execCall.value.success = FALSE
    /\ execCall.value.error = "Missing required parameter: replaceText"
    /\ execCall.invoked = <<>>
    /\ now = 0

\* the ToolResult of a call whose handler reported a failure
HandlerReportedFailure ==
    /\ execCall.settled = "resolved"
    /\ execCall.value.result.success = "false"

\* C7: a handler that reports a failure yields a ToolResult whose success is
\* false; upload_sketch with no arguments and no sketch open resolves with
\* success false and the no-sketch error.
C7_HandlerFailureIsToolFailure ==
    /\ HandlerReportedFailure => execCall.value.success = FALSE
    /\ (/\ execCall.seq > 0
        /\ execCall.toolCall = Call("direct", "upload_sketch", <<>>)
        /\ uiState.currentSketchPath = <<>>)
         => /\ execCall.settled = "resolved"
            /\ execCall.value.success = FALSE
            /\ execCall.value.error = NoSketchMsg

\* C8: every execute() call appends exactly one ExecutionOutcome to the store,
\* with the call's success and its execution time.
C8_EveryCallIsLogged ==
    [][IsExecuteStep
         => /\ Len(memory'.executions) = Len(memory.executions) + 1
            /\ LET e == memory'.executions[Len(memory'.executions)]
               IN  /\ e.tool = execCall'.toolCall.name
                   /\ e.success = execCall'.value.success
                   /\ "executionTime" \in DOMAIN e]_vars

\* ------------------------------------------------------------------------
\* Properties of the agent (Spec)
\* ------------------------------------------------------------------------
ToolModes == {"agent", "debug"}

\* C1: in agent or debug mode, a processQuery call whose provider answered
\* every chat() call with at least one tool call made exactly maxIterations
\* provider calls and returned the warning 'max_iterations_reached'; no turn
\* makes more than maxIterations provider calls.
C1_IterationCap ==
    /\ (turn.mode \in ToolModes) => turn.providerCalls <= maxIterations
    /\ (/\ turn.mode \in ToolModes
        /\ turn.entry = "processQuery"
        /\ turn.outcome = "returned"
        /\ turn.toolRounds = turn.providerCalls)
         => /\ turn.pc = "done"
            /\ turn.providerCalls = maxIterations
            /\ turn.iteration = maxIterations
            /\ turn.result.warning = "max_iterations_reached"

\* a debug turn of an agent with maxIterations 2 ran into the cap
C1_Witness ==
    /\ turn.mode = "debug"
    /\ turn.entry = "processQuery"
    /\ maxIterations = 2
    /\ turn.outcome = "returned"
    /\ turn.toolRounds = 2
    /\ turn.providerCalls = 2
    /\ turn.result.warning = "max_iterations_reached"

\* the ids of the tool calls the assistant messages of `messages` propose, and
\* the tool_call_ids of its tool messages, each in message order
ProposedIds(messages) ==
    LET F[i \in 0..Len(messages)] ==
            IF i = 0 THEN <<>>
            ELSE F[i - 1] \o [k \in 1..Len(messages[i].tool_calls) |->
                                 messages[i].tool_calls[k].id]
    IN  F[Len(messages)]

AnsweredIds(messages) ==
    LET F[i \in 0..Len(messages)] ==
            IF i = 0 THEN <<>>
            ELSE IF messages[i].role = "tool" THEN Append(F[i - 1], messages[i].tool_call_id)
            ELSE F[i - 1]
    IN  F[Len(messages)]

IsPrefix(s, t) == Len(s) <= Len(t) /\ SubSeq(t, 1, Len(s)) = s

\* C2: the tool calls of a response are executed one after another in the
\* order the provider listed them, and each one's tool-result message, carrying
\* its tool_call_id, is appended in that order after the assistant message that
\* proposed it.
C2_ToolCallsInOrder ==
    /\ IsPrefix(turn.executed, ProposedIds(turn.messages))
    /\ AnsweredIds(turn.messages) = turn.executed
    /\ Len(turn.toolResults) = Len(turn.executed)
    /\ turn.pc # "executeTools" /\ turn.outcome # "rejected"
         => turn.executed = ProposedIds(turn.messages)
    /\ \A i \in 1..Len(turn.messages) :
         \A k \in 1..Len(turn.messages[i].tool_calls) :
            i + k <= Len(turn.messages)
              => /\ turn.messages[i + k].role = "tool"
                 /\ turn.messages[i + k].tool_call_id = turn.messages[i].tool_calls[k].id
                 /\ turn.messages[i + k].name = turn.messages[i].tool_calls[k].name
                 /\ turn.messages[i + k].content[2].tool = turn.messages[i].tool_calls[k].name

\* a round of A, B, C and then a round of C, A were executed and answered
C2_Witness ==
    /\ turn.executed = <<"call_A", "call_B", "call_C", "call_C", "call_A">>
    /\ AnsweredIds(turn.messages) = turn.executed
    /\ turn.pc = "done"

\* C9: no public entry point of the agent (processQuery, analyzeError,
\* analyzeSerialOutput) throws or rejects: a missing provider, a failing
\* provider call and the iteration limit are each reported in the result.
C9_EntryPointsNeverReject == turn.outcome # "rejected"

\* C10: ask mode offers the provider no tool, makes one provider call and
\* executes no tool even when the response proposes one; debug mode offers
\* exactly analyze_error, search_memory and record_fix; agent mode offers the
\* whole registry.
C10_ToolsByMode ==
    turn.providerCalls > 0
      => /\ turn.mode = "ask"
              => /\ turn.tools = <<>>
                 /\ turn.providerCalls = 1
                 /\ turn.executed = <<>>
                 /\ turn.outcome = "returned" => turn.result.toolResults = <<>>
         /\ turn.mode = "debug"
              => /\ Len(turn.tools) = 3
                 /\ ToolNames(turn.tools) = {"analyze_error", "search_memory", "record_fix"}
         /\ turn.mode = "agent" => turn.tools = TOOL_SCHEMA

\* an ask turn returned although the response proposed a tool call, and a
\* debug turn was offered its three tools
C10_Witness ==
    /\ turn.mode = "ask"
    /\ turn.outcome = "returned"
    /\ turn.toolRounds = 1
    /\ turn.providerCalls = 1
    /\ turn.executed = <<>>
    /\ execCall.seq = 0

C10_WitnessDebug ==
    /\ turn.mode = "debug"
    /\ turn.providerCalls > 0
    /\ ToolNames(turn.tools) = {"analyze_error", "search_memory", "record_fix"}

\* the store's errors hold the signature of `text`, with at least one fix
StoreAnswers(m, text) ==
    /\ ErrorIndex(m.errors, generateSignature(text)) > 0
    /\ FixesFor(m.fixes, generateSignature(text)) # <<>>

\* the store holds no error with the signature of `text` but similar ones
StoreHasSimilarOnly(m, text) ==
    /\ ErrorIndex(m.errors, generateSignature(text)) = 0
    /\ SimilarErrors(m, text) # <<>>

IsEntryStep(entry) == turns' = turns + 1 /\ turn' # turn /\ turn'.entry = entry

\* C11: analyzeError searches the store first; when the store holds the
\* error's signature with at least one fix it returns that match and its fixes
\* with confidence 1.0 and calls no provider; a provider is called in an
\* analyzeError turn only when the store gave no such match.
C11_MemoryFirst ==
    [][/\ IsEntryStep("analyzeError")
            => LET m == LoadedMemory(memory, loaded, disk)
                   sig == generateSignature(turn'.input)
               IN  /\ loaded'
                   /\ turn'.memoryResults.kind # "none"
                   /\ StoreAnswers(m, turn'.input)
                        => /\ turn'.pc = "done"
                           /\ turn'.outcome = "returned"
                           /\ turn'.result.source = "memory"
                           /\ turn'.result.match = m.errors[ErrorIndex(m.errors, sig)]
                           /\ turn'.result.fixes = FixesFor(m.fixes, sig)
                           /\ turn'.result.confidence = ExactConfidence
                           /\ turn'.providerCalls = 0
                           /\ chatCalls' = chatCalls
       /\ (turn.entry = "analyzeError" /\ chatCalls' > chatCalls)
            => ~StoreAnswers(memory, turn.input)]_vars

\* with a provider selected, analyzeError answered from the store and called
\* no provider
C11_Witness ==
    /\ turn.entry = "analyzeError"
    /\ currentProvider # "none"
    /\ turn.outcome = "returned"
    /\ turn.result.source = "memory"
    /\ turn.result.fixes # <<>>
    /\ turn.result.confidence = ExactConfidence
    /\ chatCalls = 0

\* an analyzeError turn that went on to the provider: the store held the
\* signature without a fix
C11_WitnessProvider ==
    /\ turn.entry = "analyzeError"
    /\ turn.memoryResults.kind = "exact"
    /\ turn.providerCalls > 0

\* C12: with a provider selected, an analyzeError whose text has no exact
\* match in the store but similar ones goes on to the provider and does not
\* fail.
C12_SimilarMatchesReachProvider ==
    [][(/\ IsEntryStep("analyzeError")
        /\ currentProvider # "none"
        /\ StoreHasSimilarOnly(LoadedMemory(memory, loaded, disk), turn'.input))
         => /\ turn'.outcome # "rejected"
            /\ turn'.pc = "chat"]_vars

\* C13: analyzeSerialOutput searches the store before any provider call, and
\* goes on to the provider only when the store has nothing for the text.
C13_SerialMemoryFirst ==
    [][IsEntryStep("analyzeSerialOutput")
         => /\ loaded'
            /\ turn'.pc = "chat"
                 => ~StoreAnswers(LoadedMemory(memory, loaded, disk), turn'.input)]_vars

\* the number of fixes of `fixes` recorded for `signature` with `description`
FixCount(fixes, signature, description) ==
    Cardinality({i \in 1..Len(fixes) : /\ fixes[i].errorSignature = signature
                                       /\ fixes[i].description = description})

IsRecordFixStep == memCall'.op = "recordFix" /\ now' = now + 1

\* C14: a recordFix of a description the store already holds for that
\* signature stores no second fix: the pair keeps exactly one fix.
C14_RepeatedFixIsOneFix ==
    [][(/\ IsRecordFixStep
        /\ FixCount(LoadedMemory(memory, loaded, disk).fixes,
                    memCall'.arg[1], memCall'.arg[2]) = 1)
         => FixCount(memory'.fixes, memCall'.arg[1], memCall'.arg[2]) = 1]_vars

\* the messages the collaborators fail with: the editor's save, arduino-cli,
\* the serial port
CollaboratorFailures ==
    {"EACCES: permission denied", "Compilation failed", "Upload failed",
     "arduino-cli not found", "Failed to create serial connection: Failed to open port",
     "Failed to send data"}

\* C15: an execute() call during which a collaborator failed hands the
\* failure message on in its ToolResult and leaves an error signature in the
\* store.
C15_CollaboratorFailureIsRecorded ==
    [][(/\ IsExecuteStep
        /\ \/ execCall'.value.error \in CollaboratorFailures
           \/ execCall'.value.result.error \in CollaboratorFailures)
         => /\ execCall'.settled = "resolved"
            /\ LoadedMemory(memory', loaded', disk').errors # <<>>]_vars

\* C19: a chat() call that fails makes the agent go on with another
\* registered provider: the turn is not failed and keeps its messages.
C19_FallbackOnProviderFailure ==
    [][ProviderFails
         => /\ turn'.outcome # "rejected"
            /\ currentProvider' \in ProviderNames \ {currentProvider}
            /\ turn'.messages = turn.messages]_vars

\* the results the tool messages of `messages` carry, in message order
ToolMessageResults(messages) ==
    LET F[i \in 0..Len(messages)] ==
            IF i = 0 THEN <<>>
            ELSE IF messages[i].role = "tool" THEN Append(F[i - 1], messages[i].content[2])
            ELSE F[i - 1]
    IN  F[Len(messages)]

StoppedAtCap ==
    /\ turn.pc = "done"
    /\ turn.outcome = "returned"
    /\ turn.result.response = "Maximum iterations reached. Please refine your query."

\* C20: the result returned when the loop stops at the iteration cap holds
\* the ToolResult of every tool call of every round, in the order they were
\* executed, and processQuery's result carries the warning with them.
C20_CapKeepsToolResults ==
    StoppedAtCap
      => /\ turn.toolRounds = maxIterations
         /\ turn.executed = ProposedIds(turn.messages)
         /\ turn.result.toolResults = ToolMessageResults(turn.messages)
         /\ \A i \in 1..Len(turn.executed) :
               "executionTime" \in DOMAIN turn.result.toolResults[i]
         /\ turn.entry \in {"processQuery", "analyzeSerialOutput"}
              => turn.result.warning = "max_iterations_reached"

\* two rounds, of three calls and of two, and all five results came back
\* with the warning
C20_Witness ==
    /\ StoppedAtCap
    /\ turn.entry = "processQuery"
    /\ turn.toolRounds = 2
    /\ turn.result.warning = "max_iterations_reached"
    /\ Len(turn.result.toolResults) = 5
    /\ turn.result.toolResults[1].tool = "upload_sketch"
    /\ turn.result.toolResults[4].tool = "format_disk"

\* ------------------------------------------------------------------------
\* Properties of provider selection (SpecProvider)
\* ------------------------------------------------------------------------
\* the key fails the format the provider asks for: OpenAI 'sk-', Claude
\* 'sk-ant-', Gemini 30 characters or more, and none accepts an empty key
FailsFormat(providerName, apiKey) ==
    \/ apiKey = <<>>
    \/ providerName = "openai"
         /\ ~(Len(apiKey) >= 3 /\ SubSeq(apiKey, 1, 3) = <<"s", "k", "-">>)
    \/ providerName = "claude"
         /\ ~(Len(apiKey) >= 7 /\ SubSeq(apiKey, 1, 7) = <<"s", "k", "-", "a", "n", "t", "-">>)
    \/ providerName = "gemini" /\ Len(apiKey) < 30

\* C18: a setProvider call with a name that is not registered, or with a key
\* that fails the provider's format check, throws an error that names the
\* provider, makes no provider call and leaves the selected provider and its
\* key as they were.
C18_InvalidProviderIsRefused ==
    [][(/\ setCall'.seq = setCall.seq + 1
        /\ \/ setCall'.providerName \notin {"openai", "gemini", "claude"}
           \/ FailsFormat(setCall'.providerName, setCall'.apiKey))
         => /\ setCall'.threw
            /\ setCall'.error \in
                 {"Provider " \o setCall'.providerName \o " not registered",
                  "Invalid API key for provider " \o setCall'.providerName}
            /\ currentProvider' = currentProvider
            /\ providerKey' = providerKey
            /\ chatCalls' = chatCalls]_vars

\* with OpenAI selected, a Claude selection with an 'sk-' key that is not an
\* 'sk-ant-' key was refused and OpenAI stayed
C18_Witness ==
    /\ setCall.seq = 2
    /\ setCall.threw
    /\ setCall.providerName = "claude"
    /\ setCall.apiKey = OpenAIKey
    /\ setCall.error = "Invalid API key for provider claude"
    /\ currentProvider = "openai"
    /\ providerKey = OpenAIKey

\* ------------------------------------------------------------------------
\* Properties of the provider adapters (SpecChat)
\* ------------------------------------------------------------------------
\* the messages of `messages` that are not system messages, and the contents
\* of those that are, each in list order
NonSystem(messages) ==
    LET F[i \in 0..Len(messages)] ==
            IF i = 0 THEN <<>>
            ELSE IF messages[i].role # "system" THEN Append(F[i - 1], messages[i])
            ELSE F[i - 1]
    IN  F[Len(messages)]

SystemContents(messages) ==
    LET F[i \in 0..Len(messages)] ==
            IF i = 0 THEN <<>>
            ELSE IF messages[i].role = "system" THEN Append(F[i - 1], messages[i].content)
            ELSE F[i - 1]
    IN  F[Len(messages)]

\* What a vendor request holds, read from the vendor's own fields: its
\* conversation messages, its system text, and of one wire message the user
\* text, the ids of the tool calls and the id of the call a result answers
WireMessages(providerName, request) ==
    CASE providerName = "openai" -> NonSystem(request.messages)
      [] providerName = "claude" -> request.messages
      [] providerName = "gemini" -> request.contents

WireSystem(providerName, request) ==
    CASE providerName = "openai" -> SystemContents(request.messages)
      [] providerName = "claude" -> request.system
      [] providerName = "gemini" -> request.systemInstruction

WireUserText(providerName, w) ==
    CASE providerName = "openai" -> w.content
      [] providerName = "claude" -> w.content
      [] providerName = "gemini" -> w.parts[1].text

WireToolCallIds(providerName, w) ==
    CASE providerName = "openai" -> [k \in 1..Len(w.tool_calls) |-> w.tool_calls[k].id]
      [] providerName = "claude" ->
           LET F[i \in 0..Len(w.content)] ==
                   IF i = 0 THEN <<>>
                   ELSE IF w.content[i].type = "tool_use" THEN Append(F[i - 1], w.content[i].id)
                   ELSE F[i - 1]
           IN  F[Len(w.content)]
      [] providerName = "gemini" -> <<>>

WireToolCallId(providerName, w) ==
    CASE providerName = "openai" -> w.tool_call_id
      [] providerName = "claude" -> w.content[1].tool_use_id
      [] providerName = "gemini" -> "undefined"

\* C16: the request an adapter sends holds one wire message for every input
\* message that is not a system message, in the same order, with a user
\* message's text, an assistant message's tool calls and a tool message's
\* tool-call id, and its system text holds every system message's content.
C16_LosslessTranslation ==
    turn.pc = "awaitProvider"
      => LET input == NonSystem(turn.messages)
             wire == WireMessages(currentProvider, turn.request)
         IN  /\ Len(wire) = Len(input)
             /\ \A i \in 1..Len(input) :
                   /\ input[i].role = "user"
                        => WireUserText(currentProvider, wire[i]) = input[i].content
                   /\ input[i].tool_calls # <<>>
                        => WireToolCallIds(currentProvider, wire[i])
                             = [k \in 1..Len(input[i].tool_calls) |-> input[i].tool_calls[k].id]
                   /\ input[i].role = "tool"
                        => WireToolCallId(currentProvider, wire[i]) = input[i].tool_call_id
             /\ WireSystem(currentProvider, turn.request) = SystemContents(turn.messages)

\* the tool declarations of a vendor request, and of one declaration the
\* name and the required parameter names
WireTools(request) == IF "tools" \in DOMAIN request THEN request.tools ELSE <<>>

DeclaredName(providerName, d) ==
    CASE providerName = "openai" -> d.function.name
      [] providerName = "claude" -> d.name
      [] providerName = "gemini" -> d.name

DeclaredParameters(providerName, d) ==
    CASE providerName = "openai" -> d.function.parameters
      [] providerName = "claude" -> d.input_schema
      [] providerName = "gemini" -> d.parameters

DeclaredRequired(providerName, d) ==
    LET parameters == DeclaredParameters(providerName, d)
    IN  IF "hasRequired" \in DOMAIN parameters /\ ~parameters.hasRequired THEN {}
        ELSE Range(parameters.required)

\* C17: a chat() call with a non-empty tool list sends a request with one
\* declaration per tool, in the list's order, each with the tool's name and
\* the required parameter names of its registry entry (none for a tool
\* without a required list).
C17_ToolDeclarations ==
    (turn.pc = "awaitProvider" /\ turn.tools # <<>>)
      => LET declared == WireTools(turn.request)
         IN  /\ Len(declared) = Len(turn.tools)
             /\ \A i \in 1..Len(turn.tools) :
                   /\ DeclaredName(currentProvider, declared[i]) = turn.tools[i].name
                   /\ DeclaredRequired(currentProvider, declared[i])
                        = IF turn.tools[i].hasRequired THEN Range(turn.tools[i].required)
                          ELSE {}

\* ------------------------------------------------------------------------
\* Persistence of the Memory Store (SpecMem)
\* ------------------------------------------------------------------------
IsRecordStep ==
    /\ memCall'.op \in {"recordError", "recordFix", "recordExecution"}
    /\ now' = now + 1

\* what a new SimpleMemory instance holds after its first ensureLoaded()
AfterRestart(d) == LoadedMemory(EmptyMemory, FALSE, d)

\* C21: when a recordError, recordFix or recordExecution call resolves, the
\* file holds the store as it is in memory: a new instance that loads the
\* file has the same errors, fixes and executions.
C21_WriteThrough ==
    [][IsRecordStep
         => /\ AfterRestart(disk').errors = memory'.errors
            /\ AfterRestart(disk').fixes = memory'.fixes
            /\ AfterRestart(disk').executions = memory'.executions]_vars

\* ------------------------------------------------------------------------
\* compile_sketch and upload_sketch (SpecExec)
\* ------------------------------------------------------------------------
\* the position of `name` in the collaborator calls of an execute(), 0 when
\* it was not called
CalledAt(invoked, name) ==
    IF \E i \in 1..Len(invoked) : invoked[i] = name
    THEN CHOOSE i \in 1..Len(invoked) :
            invoked[i] = name /\ \A j \in 1..(i - 1) : invoked[j] # name
    ELSE 0

Expected(toolCall, key, uiValue) ==
    LET given == IF toolCall.hasArgs /\ key \in DOMAIN toolCall.arguments
                 THEN Trim(toolCall.arguments[key]) ELSE <<>>
    IN  IF given # <<>> THEN given ELSE IF hasUICallbacks THEN uiValue ELSE <<>>

IsBuildCall(toolCall) == toolCall.name \in {"compile_sketch", "upload_sketch"}

\* sketch, board or, for an upload, port has no value
Unresolved(toolCall) ==
    \/ Expected(toolCall, "sketchPath", uiState.currentSketchPath) = <<>>
    \/ Expected(toolCall, "boardFQBN", uiState.selectedBoard) = <<>>
    \/ /\ toolCall.name = "upload_sketch"
       /\ Expected(toolCall, "port", uiState.selectedPort) = <<>>

\* C23: with the editor's callbacks registered, compile_sketch and
\* upload_sketch call the compiler or the uploader only after saveSketch has
\* returned, and call neither of the three when sketch, board or port is
\* unresolved.
C23_SaveBeforeBuild ==
    [][(IsExecuteStep /\ IsBuildCall(execCall'.toolCall) /\ hasUICallbacks)
         => LET invoked == execCall'.invoked
                build == CalledAt(invoked, "arduino.compile") + CalledAt(invoked, "arduino.upload")
            IN  /\ build > 0
                     => /\ CalledAt(invoked, "ui.saveSketch") > 0
                        /\ CalledAt(invoked, "ui.saveSketch") < build
                /\ Unresolved(execCall'.toolCall)
                     => build = 0 /\ CalledAt(invoked, "ui.saveSketch") = 0]_vars

\* a compile that saved and then compiled, and one that stopped at the save
C23_Witness ==
    /\ execCall.toolCall.name = "compile_sketch"
    /\ execCall.invoked = <<"ui.getSelectedBoard", "ui.saveSketch", "arduino.compile",
                            "memory.recordExecution">>

\* C24: compile_sketch and upload_sketch use an argument that is not blank
\* as given, trimmed, and take an omitted or blank one from the editor; a
\* sketch, a board and, for an upload, a port that is still empty makes the
\* handler fail with that value's message, checked in this order.
C24_ArgumentsResolved ==
    [][(IsExecuteStep /\ IsBuildCall(execCall'.toolCall))
         => LET call == execCall'.toolCall
                sketchPath == Expected(call, "sketchPath", uiState.currentSketchPath)
                boardFQBN == Expected(call, "boardFQBN", uiState.selectedBoard)
                port == Expected(call, "port", uiState.selectedPort)
                result == execCall'.value.result
                failsWith(msg) == /\ result.success = "false"
                                  /\ result.error = msg
                                  /\ execCall'.passed = NothingPassed
            IN  IF sketchPath = <<>> THEN failsWith(NoSketchMsg)
                ELSE IF boardFQBN = <<>>
                THEN failsWith(IF call.name = "upload_sketch"
                               THEN NoBoardUploadMsg ELSE NoBoardCompileMsg)
                ELSE IF call.name = "upload_sketch" /\ port = <<>> THEN failsWith(NoPortMsg)
                ELSE /\ result.error \notin {NoSketchMsg, NoBoardUploadMsg, NoBoardCompileMsg,
                                              NoPortMsg}
                     /\ execCall'.passed # NothingPassed
                          => execCall'.passed =
                               [sketchPath |-> sketchPath, boardFQBN |-> boardFQBN,
                                port |-> IF call.name = "upload_sketch" THEN port ELSE <<>>]]_vars

\* with a sketch, a board and a port selected in the editor, an upload used
\* its own sketch path and its trimmed port argument
C24_Witness ==
    /\ execCall.toolCall.name = "upload_sketch"
    /\ uiState.selectedPort = PortText
    /\ execCall.passed = [sketchPath |-> <<"t">>, boardFQBN |-> BoardText, port |-> <<"q">>]

\* a compile took the sketch from its argument and the blank board from the
\* editor; another, with nothing open, failed for the missing sketch
C24_WitnessEditor ==
    /\ execCall.toolCall.name = "compile_sketch"
    /\ execCall.passed = [sketchPath |-> <<"t">>, boardFQBN |-> BoardText, port |-> <<>>]

\* ------------------------------------------------------------------------
\* C25: the serial buffer holds at most maxBufferSize entries, and after every
\* chunk that arrives it equals the most recent entries in arrival order: the
\* buffer before it with the chunk's one entry appended, cut to the last
\* maxBufferSize
\* ------------------------------------------------------------------------
IsDataStep == serialBuffer' # serialBuffer

ArrivalEntry ==
    [timestamp |-> NextArrival, data |-> NextArrival, baudRate |-> currentBaudRate]

C25_MostRecentInOrder ==
    [][/\ Len(serialBuffer') <= maxBufferSize
       /\ IsDataStep =>
            serialBuffer' = SliceLast(Append(serialBuffer, ArrivalEntry), maxBufferSize)]_vars

\* The size bound alone
C25_AtMostMaxBufferSize == Len(serialBuffer) <= maxBufferSize

\* A chunk arrived at a full buffer and the oldest entry left
C25_WitnessEvicted ==
    /\ Len(serialBuffer) = maxBufferSize
    /\ serialBuffer[1].data > 1 - (maxBufferSize - 1)

\* One chunk is in the buffer twice
C25_WitnessDuplicate ==
    \E i \in 1 .. Len(serialBuffer) - 1 : serialBuffer[i].data = serialBuffer[i + 1].data

\* ------------------------------------------------------------------------
\* The execution log and its statistics (SpecLog)
\* ------------------------------------------------------------------------
IsRecordExecutionStep == memCall'.op = "recordExecution" /\ now' = now + 1

IsGetStatsStep == memCall'.op = "getStats" /\ now' = now + 1

RECURSIVE CountSuccess(_)
CountSuccess(log) ==
    IF log = <<>> THEN 0
    ELSE (IF Head(log).success THEN 1 ELSE 0) + CountSuccess(Tail(log))

\* C26: the execution log never holds more than MaxExecutions entries; a
\* recordExecution call leaves the new entry last and before it the most
\* recent entries of the log it found, in their order, as many as fit; getStats
\* reports the number of retained entries and the success rate over exactly
\* those, 0 for an empty log.
C26_LogWindow ==
    [][/\ Len(memory'.executions) <= MaxExecutions
       /\ IsRecordExecutionStep =>
            LET before == LoadedMemory(memory, loaded, disk).executions
                after  == memory'.executions
                kept   == IF Len(before) < MaxExecutions THEN Len(before)
                          ELSE MaxExecutions - 1
            IN  /\ Len(after) = kept + 1
                /\ after[Len(after)].timestamp = now
                /\ after[Len(after)].tool = memCall'.arg
                /\ \A i \in 1..kept : after[i] = before[Len(before) - kept + i]
       /\ IsGetStatsStep =>
            LET log == memory'.executions
            IN  /\ memCall'.result.executions = Len(log)
                /\ memCall'.result.successRate =
                     IF log = <<>> THEN ZeroRate ELSE <<CountSuccess(log), Len(log)>>]_vars

\* The log is full, its oldest entries have been evicted, and getStats has
\* reported on it
C26_Witness ==
    /\ memCall.op = "getStats"
    /\ Len(memory.executions) = MaxExecutions
    /\ memory.executions[1].timestamp > 1 - MaxExecutions
    /\ memCall.result.successRate[2] = MaxExecutions

\* getStats on a store that never recorded an execution
C26_WitnessEmpty ==
    /\ memCall.op = "getStats"
    /\ memory.executions = <<>>
    /\ memCall.result.successRate = ZeroRate

\* ------------------------------------------------------------------------
\* The Conversation (Spec)
\* ------------------------------------------------------------------------
\* clearHistory(): a public call that leaves the last turn's locals and the
\* provider as they are
IsClearHistoryStep ==
    /\ turns' = turns + 1
    /\ turn' = turn
    /\ setCall' = setCall

\* C27: the Conversation is only extended at its end: every step leaves the
\* messages it found unchanged, in their order, at the front of the
\* Conversation, or it is a clearHistory call and leaves the Conversation empty.
C27_AppendOnly ==
    [][\/ IsPrefix(conversationHistory, conversationHistory')
       \/ IsClearHistoryStep /\ conversationHistory' = <<>>]_vars

\* A second turn has been answered on top of the first one's messages
C27_Witness ==
    /\ turn.pc = "done"
    /\ turns = 2
    /\ Len(conversationHistory) >= 4
    /\ conversationHistory[1].role = "user"
    /\ conversationHistory[3].role = "user"

\* C28: after a turn with tool rounds the Conversation holds, for the rounds
\* of the turn, an assistant message carrying the proposed calls and one
\* tool-result message for every executed call.
C28_ToolRoundsInConversation ==
    (turn.pc = "done" /\ turn.outcome = "returned" /\ turn.executed # <<>>)
        => /\ \E k \in 1..Len(conversationHistory) :
                /\ conversationHistory[k].role = "assistant"
                /\ conversationHistory[k].tool_calls # <<>>
           /\ \A i \in 1..Len(turn.executed) :
                \E k \in 1..Len(conversationHistory) :
                    /\ conversationHistory[k].role = "tool"
                    /\ conversationHistory[k].tool_call_id = turn.executed[i]

\* The messages of the rounds are in the turn's own message list
C28_RoundsInTurnMessages ==
    (turn.pc = "done" /\ turn.outcome = "returned" /\ turn.executed # <<>>)
        => \A i \in 1..Len(turn.executed) :
                \E k \in 1..Len(turn.messages) :
                    /\ turn.messages[k].role = "tool"
                    /\ turn.messages[k].tool_call_id = turn.executed[i]

\* ------------------------------------------------------------------------
\* The awaits of a turn (SpecRace)
\* ------------------------------------------------------------------------
\* C29: a turn never has more than one execute() call outstanding: a call is
\* started only when none is outstanding, and a chat() call is made only when
\* none is outstanding and no call of the round is left to execute.
C29_OneToolInFlight ==
    [][/\ inFlight' <= 1
       /\ inFlight' > inFlight => inFlight = 0
       /\ (turn'.pc = "awaitProvider" /\ turn.pc # "awaitProvider")
            => inFlight = 0 /\ turn.pending = <<>>]_vars

\* The second call of a round is outstanding, the first one has settled
C29_Witness ==
    /\ turn.pc = "awaitTool"
    /\ inFlight = 1
    /\ turn.executed # <<>>
    /\ Len(turn.pending) >= 1

\* The provider is called again after a round of several calls
C29_WitnessNextChat ==
    /\ turn.pc = "awaitProvider"
    /\ Len(turn.executed) >= 2
    /\ inFlight = 0

IsSecondStart == turn2.pc = "idle" /\ turn2'.pc # "idle"

IsSecondReply == turn2.pc = "awaitProvider" /\ turn2'.pc = "done"

\* C30: a processQuery call made while another one is suspended is not
\* rejected and not held back: in the same step its user message is the new
\* last message of the one Conversation and its own chat() call is made, the
\* first call's turn is left as it is, and its reply is appended to the same
\* Conversation when it arrives.
C30_NoLock ==
    [][/\ IsSecondStart =>
            /\ Suspended
            /\ turn' = turn
            /\ turn2'.outcome # "rejected"
            /\ turn2'.pc = "awaitProvider"
            /\ \E q \in SecondQueries :
                 conversationHistory' =
                     Append(conversationHistory, UserMessage(q, EnrichedContext))
       /\ (IsSecondReply /\ turn2'.result.response # "") =>
            conversationHistory' =
                Append(conversationHistory, AssistantText(turn2'.result.response))]_vars

\* Both calls returned an answer; their two user messages are adjacent, so the
\* first call's reply does not follow its user message
C30_Witness ==
    /\ turn.pc = "done" /\ turn.outcome = "returned" /\ turn.result.response = "answer"
    /\ turn2.pc = "done" /\ turn2.outcome = "returned" /\ turn2.result.response = "answer"
    /\ Len(conversationHistory) = 4
    /\ conversationHistory[1].role = "user"
    /\ conversationHistory[2].role = "user"
    /\ conversationHistory[1] # conversationHistory[2]
    /\ conversationHistory[3].role = "assistant"
    /\ conversationHistory[4].role = "assistant"

\* ------------------------------------------------------------------------
\* The tools a turn may run (Spec)
\* ------------------------------------------------------------------------
\* the call of this step passed validateToolCall and was handed to its handler
ReachedHandler == IsExecuteStep /\ validateToolCall(execCall'.toolCall).valid

\* C31: a tool call proposed in a turn reaches its handler only if its name is
\* in the tool list the turn offered to the provider; in debug mode that list
\* is analyze_error, search_memory and record_fix.
C31_OnlyOfferedToolsRun ==
    [][(ReachedHandler /\ turn.pc = "executeTools")
         => /\ execCall'.toolCall.name \in ToolNames(turn.tools)
            /\ turn.mode = "debug"
                 => execCall'.toolCall.name
                        \in {"analyze_error", "search_memory", "record_fix"}]_vars

\* The list offered in debug mode is the three debug tools
C31_DebugOffer ==
    (turn.mode = "debug" /\ turn.pc # "done")
        => ToolNames(turn.tools) = {"analyze_error", "search_memory", "record_fix"}

\* ------------------------------------------------------------------------
\* The ToolResult and the logged outcome of one call (SpecExec)
\* ------------------------------------------------------------------------
\* the call of this step was logged by recordExecution
LoggedOutcome == memory'.executions[Len(memory'.executions)]

IsLoggedStep ==
    /\ IsExecuteStep
    /\ CalledAt(execCall'.invoked, "memory.recordExecution") > 0

\* C32: when an execute() call reached its handler and was logged, the success
\* flag of the ToolResult it resolves with is the success flag of the logged
\* outcome, and both are false exactly when the handler's result has success
\* false.
C32_ResultMatchesLog ==
    [][IsLoggedStep
         => /\ execCall'.value.success = LoggedOutcome.success
            /\ execCall'.value.success = (execCall'.value.result.success # "false")]_vars

\* The logged flag alone follows the handler's result
C32_LogFollowsHandler ==
    [][IsLoggedStep
         => LoggedOutcome.success = (execCall'.value.result.success # "false")]_vars

\* ------------------------------------------------------------------------
\* One entry per chunk (SpecSerial)
\* ------------------------------------------------------------------------
\* the buffer positions that hold chunk n
EntriesOf(buffer, n) == {i \in 1..Len(buffer) : buffer[i].data = n}

\* C33: a chunk the transport emits is in the buffer exactly once afterwards,
\* however many connect_serial calls were executed before it.
C33_OneEntryPerChunk ==
    [][IsDataStep => Cardinality(EntriesOf(serialBuffer', NextArrival)) = 1]_vars

\* A chunk arrived after connect_serial was executed twice
C33_WitnessReconnected ==
    /\ dataListeners >= 2
    /\ serialBuffer # <<>>
    /\ serialBuffer[Len(serialBuffer)].data >= 1

\* ------------------------------------------------------------------------
\* read_serial (SpecSerial)
\* ------------------------------------------------------------------------
IsReadStep ==
    /\ IsExecuteStep
    /\ execCall'.toolCall.name = "read_serial"
    /\ execCall'.toolCall.hasArgs

\* `lines` of the call of this step, DefaultReadLines when it is not given
RequestedLines ==
    IF HasArg(execCall'.toolCall, "lines") THEN execCall'.toolCall.arguments.lines
    ELSE DefaultReadLines

\* what read_serial is to return for n lines: the last n entries, all of them
\* when fewer are buffered
MostRecent(buffer, n) ==
    [i \in 1 .. (IF n < Len(buffer) THEN n ELSE Len(buffer)) |->
        buffer[Len(buffer) - (IF n < Len(buffer) THEN n ELSE Len(buffer)) + i]]

\* C34: read_serial with lines = n returns the n most recently buffered
\* entries in arrival order (all of them when fewer are buffered), none for
\* n = 0, and totalBuffered is the length of the buffer.
C34_ReadReturnsMostRecent ==
    [][IsReadStep
         => /\ execCall'.value.result.data.lines = MostRecent(serialBuffer, RequestedLines)
            /\ execCall'.value.result.data.totalBuffered = Len(serialBuffer)]_vars

\* The same for the calls that ask for at least one line
C34_PositiveLines ==
    [][(IsReadStep /\ RequestedLines > 0)
         => /\ execCall'.value.result.data.lines = MostRecent(serialBuffer, RequestedLines)
            /\ execCall'.value.result.data.totalBuffered = Len(serialBuffer)]_vars

\* read_serial with lines 0 on a buffer that holds entries
C34_WitnessZero ==
    /\ execCall.toolCall = Call("direct", "read_serial", [lines |-> 0])
    /\ serialBuffer # <<>>
    /\ execCall.value.result.data.lines = serialBuffer

\* ------------------------------------------------------------------------
\* Signatures and their counts (SpecMem)
\* ------------------------------------------------------------------------
\* the occurrences the store holds for a signature: 0 when it has no entry
RECURSIVE CountOf(_, _)
CountOf(errors, signature) ==
    IF errors = <<>> THEN 0
    ELSE (IF Head(errors).signature = signature THEN Head(errors).count ELSE 0)
         + CountOf(Tail(errors), signature)

NoSharedHash(errors) ==
    \A i, j \in 1..Len(errors) : errors[i].signature = errors[j].signature => i = j

\* C35: no two stored signatures share a hash, and every call adds one to the
\* count of the signature its text normalizes to when it is a recordError call
\* and leaves every other count as it was: a count is the number of
\* recordError calls made for its signature.
C35_CountsAreCalls ==
    [][/\ NoSharedHash(memory'.errors)
       /\ \A signature \in Signatures :
            CountOf(memory'.errors, signature)
              = CountOf(LoadedMemory(memory, loaded, disk).errors, signature)
                + (IF IsRecordErrorStep /\ generateSignature(memCall'.arg) = signature
                   THEN 1 ELSE 0)]_vars

\* Three recordError calls, two of them for one signature
C35_Witness ==
    /\ memCall.op = "recordError"
    /\ Len(memory.errors) = 2
    /\ memory.errors[1].count + memory.errors[2].count = 3
    /\ memory.errors[1].signature # memory.errors[2].signature

\* C36: every stored fix carries the hash of a signature the store holds, so
\* an exact-match search can return it.
C36_FixesReferToStoredSignatures ==
    \A i \in 1..Len(memory.fixes) :
        \E k \in 1..Len(memory.errors) :
            memory.errors[k].signature = memory.fixes[i].errorSignature

\* ------------------------------------------------------------------------
\* Records of resolved calls (SpecLoad)
\* ------------------------------------------------------------------------
\* the record of call c is in the store m
Recorded(m, c) ==
    IF c.op = "recordError"
    THEN \E k \in 1..Len(m.errors) : m.errors[k].signature = generateSignature(c.arg)
    ELSE IF c.op = "recordExecution"
    THEN \E k \in 1..Len(m.executions) :
            m.executions[k].tool = c.arg /\ m.executions[k].timestamp = c.at
    ELSE TRUE

\* C37: the record of every recordError and recordExecution call that has
\* resolved is in the in-memory store, whatever the order in which the calls'
\* loads and saves complete.
C37_ResolvedRecordsStay ==
    \A p \in StoreCallers : storeCalls[p].pc = "done" => Recorded(memory, storeCalls[p])

\* Two calls were made before the first load completed and both have resolved
C37_WitnessTwoLoads ==
    /\ \A p \in StoreCallers : storeCalls[p].pc = "done" /\ storeCalls[p].op # "getStats"
    /\ \A p \in StoreCallers : storeCalls[p].at >= MaxStoreCallers

\* ------------------------------------------------------------------------
\* A processQuery call that fails (Spec)
\* ------------------------------------------------------------------------
\* processQuery is refused at its head
IsRefusedStep ==
    /\ IsEntryStep("processQuery")
    /\ turn'.outcome = "rejected"

\* chat() rejects in a processQuery call
IsProviderFailureStep ==
    /\ turn.entry = "processQuery"
    /\ turn.pc = "awaitProvider"
    /\ turn'.outcome = "rejected"

\* The Conversation as the call in flight found it: the turn's message list
\* starts with the system message, the Conversation it found and its own user
\* message, the last message of the Conversation until the call ends
BeforeCall == SubSeq(turn.messages, 2, Len(conversationHistory))

\* C38: a processQuery call that is refused for want of a provider, or whose
\* chat() call rejects in any round, leaves the Conversation as it was before
\* the call.
C38_FailedCallLeavesNoTrace ==
    [][/\ IsRefusedStep => conversationHistory' = conversationHistory
       /\ IsProviderFailureStep => conversationHistory' = BeforeCall]_vars

\* The refusal alone leaves the Conversation as it was
C38_RefusalLeavesNoTrace ==
    [][IsRefusedStep => conversationHistory' = conversationHistory]_vars

\* A call was refused for want of a provider
C38_WitnessRefused ==
    /\ turn.entry = "processQuery"
    /\ turn.outcome = "rejected"
    /\ currentProvider = "none"

\* C39: whenever the uploader's upload is invoked, the serial transport is not
\* connected, whatever connect was issued from outside the upload meanwhile
C39_TransportFreeAtUpload == ~uploadCall.connectedAtUpload

\* An upload that nobody's connect runs beside finds the transport closed
C39_FreeWhenAlone == connectCall = NoConnect => ~uploadCall.connectedAtUpload

\* The uploader was invoked after a connect from outside had been issued
C39_WitnessBeside ==
    /\ uploadCall.pc = "uploading"
    /\ connectCall.seq > 0

====
